---- MODULE Spec2Model ----
(***************************************************************************)
(* Life360 Web UI backend: the normalisation helpers                       *)
(* (backend/app/services/life360_helpers.py), the response models          *)
(* (backend/app/models/responses.py) and the aggregation routes            *)
(* (backend/app/routers/*.py), as a state machine.                          *)
(*                                                                         *)
(* Python values are tagged records; strings that the code parses are      *)
(* sequences of one-character strings so that float(), int() and str()     *)
(* are computed, not assumed.                                              *)
(***************************************************************************)
EXTENDS Integers, Sequences, FiniteSets, TLC

VARIABLES
    rawLocation,   \* parse_location: its argument (a Python value)
    locationOut,   \* parse_location: "pending", then the value returned
    rawMember,     \* create_member_summary / parse_member_status: the argument
    statusOut,     \* parse_member_status: "pending", then the outcome
    summaryOut,    \* create_member_summary: "pending", then the outcome
    summaryAgain,  \* create_member_summary: the outcome of a second call on
                   \* the same argument
    op,            \* a route handler call: its name and query parameters
    pc,            \* the handler's position: idle, request, rejected, start,
                   \* loop, scan, refetch, done, failed
    circles,       \* the list get_circles returned to the handler
    idx,           \* number of circles the handler's for loop has processed
    result,        \* the handler's accumulator (result, locations)
    response,      \* what the handler call ended with: a value or an HTTPException
    log,           \* upstream calls made so far, with the responses of the
                   \* handler's traversal of circles
    all_locations,   \* get_driving_members: the list get_current_locations gave
    locIndex,        \* get_driving_members: position of its for loop in all_locations
    driving_members, \* get_driving_members: the summaries appended so far
    seen_ids,        \* get_driving_members: the member ids already appended
    environ,         \* os.environ: the value of LIFE360_AUTHORIZATION, or None
    app_state,       \* main.app_state: the default session, once created
    active_sessions, \* main.active_sessions: resolved token -> session
    created,         \* every ClientSession constructed so far: open or closed
    calls,           \* the get_life360_api calls made: arguments, position
                     \* and outcome of each
    lifespanPc       \* main.lifespan: startup, serving, stopped

helperVars ==
    <<rawLocation, locationOut, rawMember, statusOut, summaryOut, summaryAgain>>
drivingVars == <<all_locations, locIndex, driving_members, seen_ids>>
handlerVars == <<op, pc, circles, idx, result, response, log, drivingVars>>
sessionVars == <<environ, app_state, active_sessions, created, calls, lifespanPc>>
vars == <<helperVars, handlerVars, sessionVars>>

(***************************************************************************)
(* Python values                                                           *)
(***************************************************************************)
\* dict.get(key) on a missing key (no Python value: the key is not there)
Absent == [t |-> "absent"]
None == [t |-> "none"]
I(n) == [t |-> "int", i |-> n]
F(x) == [t |-> "float", f |-> x]
S(s) == [t |-> "str", s |-> s]
B(b) == [t |-> "bool", b |-> b]
\* a non-empty JSON array: neither a number, a string nor a mapping
AList == [t |-> "list"]

\* floats: an exact decimal n/d (d a power of ten), nan, or +-inf
Fin(n, d) == [k |-> "fin", n |-> n, d |-> d]
NaN == [k |-> "nan"]
Inf(neg) == [k |-> "inf", neg |-> neg]

IsNone(v) == v.t = "none"

Digits == <<"0", "1", "2", "3", "4", "5", "6", "7", "8", "9">>
IsDigit(c) == \E i \in 1..Len(Digits) : Digits[i] = c
DigitVal(c) == (CHOOSE i \in 1..Len(Digits) : Digits[i] = c) - 1
AllDigits(s) == \A i \in 1..Len(s) : IsDigit(s[i])

RECURSIVE DigitsVal(_)
DigitsVal(s) ==
    IF s = <<>> THEN 0
    ELSE DigitsVal(SubSeq(s, 1, Len(s) - 1)) * Len(Digits) + DigitVal(s[Len(s)])

RECURSIVE Pow10(_)
Pow10(k) == IF k = 0 THEN 1 ELSE Len(Digits) * Pow10(k - 1)

RECURSIVE Strip(_)
\* str.strip(): leading and trailing blanks removed
Strip(s) ==
    IF s = <<>> THEN s
    ELSE IF Head(s) = " " THEN Strip(Tail(s))
    ELSE IF s[Len(s)] = " " THEN Strip(SubSeq(s, 1, Len(s) - 1))
    ELSE s

Ok(v) == [ok |-> TRUE, v |-> v]
Raise(e) == [ok |-> FALSE, err |-> e]

\* position of the first "." of s, or 0
DotAt(s) ==
    IF \E i \in 1..Len(s) : s[i] = "."
    THEN CHOOSE i \in 1..Len(s) : s[i] = "." /\ \A j \in 1..(i - 1) : s[j] # "."
    ELSE 0

\* float(<unsigned decimal literal>): digits, optionally a point and digits,
\* at least one digit in all ("5", "5.", ".5", "73.9")
DecimalOf(ip, fp) ==
    IF AllDigits(ip) /\ AllDigits(fp) /\ Len(ip) + Len(fp) > 0
    THEN Ok(Fin(DigitsVal(ip \o fp), Pow10(Len(fp))))
    ELSE Raise("ValueError")
SplitAt(u, p) ==
    IF p = 0 THEN DecimalOf(u, <<>>)
    ELSE DecimalOf(SubSeq(u, 1, p - 1), SubSeq(u, p + 1, Len(u)))
UnsignedFloat(u) == SplitAt(u, DotAt(u))

\* float(<str>): blanks stripped, an optional sign, then nan, inf or a decimal
\* literal (exponents and digit-group underscores are not in the inputs drawn)
Negated(r) == IF r.ok THEN Ok(Fin(-r.v.n, r.v.d)) ELSE r
SignedFloat(u, neg) ==
    IF u = <<"n", "a", "n">> THEN Ok(NaN)
    ELSE IF u = <<"i", "n", "f">> THEN Ok(Inf(neg))
    ELSE IF neg THEN Negated(UnsignedFloat(u))
    ELSE UnsignedFloat(u)
FloatOfStripped(s) ==
    IF s # <<>> /\ Head(s) \in {"-", "+"}
    THEN SignedFloat(Tail(s), Head(s) = "-")
    ELSE SignedFloat(s, FALSE)
FloatOfStr(s) == FloatOfStripped(Strip(s))

\* float(v)
PyFloat(v) ==
    CASE v.t = "int" -> Ok(Fin(v.i, 1))
      [] v.t = "float" -> Ok(v.f)
      [] v.t = "bool" -> Ok(Fin(IF v.b THEN 1 ELSE 0, 1))
      [] v.t = "str" -> FloatOfStr(v.s)
      [] OTHER -> Raise("TypeError")

\* int(<float>): truncation toward zero; nan and inf have no integer
IntOfFloat(x) ==
    CASE x.k = "nan" -> Raise("ValueError")
      [] x.k = "inf" -> Raise("OverflowError")
      [] OTHER -> Ok(IF x.n >= 0 THEN x.n \div x.d ELSE -((-x.n) \div x.d))

\* x < c and x > c for a float x and an integer c (every comparison with nan
\* is false)
FloatLt(x, c) ==
    CASE x.k = "nan" -> FALSE
      [] x.k = "inf" -> x.neg
      [] OTHER -> x.n < c * x.d
FloatGt(x, c) ==
    CASE x.k = "nan" -> FALSE
      [] x.k = "inf" -> ~x.neg
      [] OTHER -> x.n > c * x.d

RECURSIVE NatToStr(_)
NatToStr(n) ==
    IF n < Len(Digits) THEN <<Digits[n + 1]>>
    ELSE NatToStr(n \div Len(Digits)) \o <<Digits[(n % Len(Digits)) + 1]>>

IntToStr(n) == IF n < 0 THEN <<"-">> \o NatToStr(-n) ELSE NatToStr(n)

RECURSIVE DropTrailingZeros(_)
DropTrailingZeros(s) ==
    IF Len(s) > 1 /\ s[Len(s)] = "0"
    THEN DropTrailingZeros(SubSeq(s, 1, Len(s) - 1))
    ELSE s

RECURSIVE PadLeft(_, _)
PadLeft(s, k) == IF Len(s) >= k THEN s ELSE PadLeft(<<"0">> \o s, k)

RECURSIVE Log10(_)
Log10(d) == IF d <= 1 THEN 0 ELSE 1 + Log10(d \div Len(Digits))

\* str(<float>): "1.0", "-0.5", "73.9", "nan", "inf", "-inf"
FloatToStr(x) ==
    CASE x.k = "nan" -> <<"n", "a", "n">>
      [] x.k = "inf" -> (IF x.neg THEN <<"-">> ELSE <<>>) \o <<"i", "n", "f">>
      [] OTHER ->
           LET a == IF x.n < 0 THEN -x.n ELSE x.n
               fr == IF x.d = 1 THEN <<"0">>
                     ELSE DropTrailingZeros(PadLeft(NatToStr(a % x.d), Log10(x.d)))
           IN  (IF x.n < 0 THEN <<"-">> ELSE <<>>)
                   \o NatToStr(a \div x.d) \o <<".">> \o fr

\* str(v)
PyStr(v) ==
    CASE v.t = "str" -> v.s
      [] v.t = "int" -> IntToStr(v.i)
      [] v.t = "float" -> FloatToStr(v.f)
      [] v.t = "bool" -> IF v.b THEN <<"T", "r", "u", "e">>
                         ELSE <<"F", "a", "l", "s", "e">>
      [] v.t = "none" -> <<"N", "o", "n", "e">>
      [] OTHER -> <<"[", "0", "]">>

\* bool(v): the truth value Python's `not v` and `if v` use
Truthy(v) ==
    CASE v.t = "none" -> FALSE
      [] v.t = "absent" -> FALSE
      [] v.t = "int" -> v.i # 0
      [] v.t = "float" -> ~(v.f.k = "fin" /\ v.f.n = 0)
      [] v.t = "bool" -> v.b
      [] v.t = "str" -> v.s # <<>>
      [] v.t = "list" -> TRUE
      [] v.t = "dict" -> \E key \in DOMAIN v.d : v.d[key] # Absent
      [] OTHER -> TRUE

\* d.get(key, default) on a mapping d
Get(d, key, default) == IF d[key] = Absent THEN default ELSE d[key]

Dict(d) == [t |-> "dict", d |-> d]

(***************************************************************************)
(* models/responses.py: LocationData                                       *)
(***************************************************************************)
\* max(-90, min(90, v)) when v is out of range, v itself otherwise (nan is
\* neither below -90 nor above 90)
validate_latitude(x) ==
    IF FloatLt(x, -90) \/ FloatGt(x, 90)
    THEN (IF FloatLt(x, 90) THEN Fin(-90, 1) ELSE Fin(90, 1))
    ELSE x

validate_longitude(x) ==
    IF FloatLt(x, -180) \/ FloatGt(x, 180)
    THEN (IF FloatLt(x, 180) THEN Fin(-180, 1) ELSE Fin(180, 1))
    ELSE x

Max(a, b) == IF a >= b THEN a ELSE b
Min(a, b) == IF a <= b THEN a ELSE b

\* battery: Optional[int], clamped when given
validate_battery(v) == IF IsNone(v) THEN v ELSE I(Max(0, Min(100, v.i)))

\* speed: a negative number becomes None
validate_speed(v) ==
    IF v.t = "float" /\ FloatLt(v.f, 0) THEN None ELSE v

\* Optional[str]: None or a str, nothing else is accepted
IsOptionalStr(v) == v.t \in {"none", "str"}

\* LocationData(**fields): the validated object, or ValidationError
LocationData(fields) ==
    IF fields.accuracy < 0
       \/ ~IsOptionalStr(fields.name)
       \/ ~IsOptionalStr(fields.address1)
       \/ ~IsOptionalStr(fields.address2)
    THEN Raise("ValidationError")
    ELSE Ok([t |-> "Location",
             latitude |-> validate_latitude(fields.latitude),
             longitude |-> validate_longitude(fields.longitude),
             accuracy |-> fields.accuracy,
             name |-> fields.name,
             address1 |-> fields.address1,
             address2 |-> fields.address2,
             battery |-> validate_battery(fields.battery),
             timestamp |-> fields.timestamp,
             speed |-> validate_speed(fields.speed),
             is_driving |-> fields.is_driving])

(***************************************************************************)
(* services/life360_helpers.py: parse_location                             *)
(***************************************************************************)
\* int(float(v)): the float conversion, then the truncation
ThenInt(f) == IF f.ok THEN IntOfFloat(f.v) ELSE f
IntOfFloatOf(v) == ThenInt(PyFloat(v))

Caught(r) == ~r.ok /\ r.err \in {"ValueError", "TypeError"}

\* a slip: a coordinate that does not convert degrades to 0 like accuracy
OrZero(r) == IF r.ok THEN r ELSE Ok(Fin(0, 1))
ParseCoordinate_Default(d, key) == OrZero(PyFloat(Get(d, key, I(0))))

\* lines 55-60: one coordinate, float(location_data.get(key, 0))
ParseCoordinate(d, key) == PyFloat(Get(d, key, I(0)))

\* lines 63-66: accuracy, 0 on ValueError/TypeError; any other exception
\* leaves the inner try
AccuracyOr0(r) == IF Caught(r) THEN Ok(0) ELSE r
ParseAccuracy(d) == AccuracyOr0(IntOfFloatOf(Get(d, "accuracy", I(0))))

\* a slip: a negative speed is floored at 0
SpeedOf_Zero(r) ==
    IF ~r.ok THEN None
    ELSE IF FloatLt(r.v, 0) THEN F(Fin(0, 1))
    ELSE F(r.v)

\* lines 69-77: speed, None when absent, null, negative or not a number
SpeedOf(r) ==
    IF ~r.ok THEN None
    ELSE IF FloatLt(r.v, 0) THEN None
    ELSE F(r.v)
SpeedValue(v) == IF IsNone(v) THEN None ELSE SpeedOf(PyFloat(v))
ParseSpeed(d) == SpeedValue(Get(d, "speed", None))

\* lines 80-89: battery, int(float(v)) clamped to [0,100]; None on
\* ValueError/TypeError; any other exception leaves the inner try
BatteryOf(r) ==
    IF Caught(r) THEN Ok(None)
    ELSE IF ~r.ok THEN r
    ELSE Ok(I(Max(0, Min(100, r.v))))
BatteryValue(v) == IF IsNone(v) THEN Ok(None) ELSE BatteryOf(IntOfFloatOf(v))
ParseBattery(d) == BatteryValue(Get(d, "battery", None))

\* lines 95-99
ParseIsDriving(d) == PyStr(Get(d, "isDriving", S(<<"0">>))) = <<"1">>

\* lines 115-117: any exception left over gives None
OrNone(obj) == IF obj.ok THEN obj.v ELSE None

\* lines 51-117: the body of the try, on a mapping d, given the outcomes of
\* the coordinate, accuracy and battery conversions
ParseFields(d, lat, lon, acc, bat) ==
    IF ~lat.ok \/ ~lon.ok THEN None
    ELSE IF ~acc.ok \/ ~bat.ok THEN None
    ELSE OrNone(LocationData(
             [latitude |-> lat.v,
              longitude |-> lon.v,
              accuracy |-> acc.v,
              name |-> Get(d, "name", None),
              address1 |-> Get(d, "address1", None),
              address2 |-> Get(d, "address2", None),
              battery |-> bat.v,
              timestamp |-> PyStr(Get(d, "timestamp", S(<<>>))),
              speed |-> ParseSpeed(d),
              is_driving |-> ParseIsDriving(d)]))

\* parse_location(location_data): a Location, or None
parse_location(v) ==
    IF ~Truthy(v) THEN None
    ELSE IF v.t # "dict" THEN None
    ELSE ParseFields(v.d, ParseCoordinate(v.d, "latitude"),
                     ParseCoordinate(v.d, "longitude"),
                     ParseAccuracy(v.d), ParseBattery(v.d))

(***************************************************************************)
(* Inputs drawn for the helpers                                            *)
(***************************************************************************)
Pending == [t |-> "pending"]

LatitudeVals ==
    {Absent, S(<<"4", "5", ".", "5">>), S(<<"a", "b", "c">>),
     S(<<"-", "9", "1">>), S(<<"n", "a", "n">>)}
LongitudeVals ==
    {Absent, S(<<"-", "7", "4", ".", "0">>), S(<<"1", "8", "1">>), AList}
AccuracyVals ==
    {Absent, S(<<"6", "5">>), S(<<"-", "5">>), S(<<"a", "b", "c">>),
     S(<<"i", "n", "f">>)}
BatteryVals ==
    {Absent, None, S(<<"-", "5">>), S(<<"1", "5", "0">>),
     S(<<"7", "3", ".", "9", "9", "9", "9", "9", "9">>), S(<<"a", "b", "c">>),
     S(<<"i", "n", "f">>), S(<<"n", "a", "n">>), I(85)}
SpeedVals ==
    {Absent, I(-1), I(0), S(<<"1", "2", ".", "5">>), S(<<"a", "b", "c">>),
     S(<<"n", "a", "n">>)}
IsDrivingVals == {Absent, S(<<"1">>), I(1), B(TRUE)}
TimestampVals == {Absent, I(17)}
NameVals == {S(<<"H", "o", "m", "e">>), I(5)}

\* the raw location mappings drawn (address1 and address2 are read like name)
RawLocationDicts ==
    {Dict([latitude |-> la, longitude |-> lo, accuracy |-> ac, battery |-> ba,
           speed |-> sp, isDriving |-> dr, timestamp |-> ts, name |-> nm,
           address1 |-> Absent, address2 |-> Absent]) :
        la \in LatitudeVals, lo \in LongitudeVals, ac \in AccuracyVals,
        ba \in BatteryVals, sp \in SpeedVals, dr \in IsDrivingVals,
        ts \in TimestampVals, nm \in NameVals}

\* and the values that are no mapping
RawLocations == RawLocationDicts \cup {None, AList, S(<<"x">>), I(0)}

(***************************************************************************)
(* SpecLocation: parse_location applied to one drawn raw location          *)
(***************************************************************************)
\* get_driving_members has not started its own loop
DrivingIdle ==
    /\ all_locations = <<>>
    /\ locIndex = 0
    /\ driving_members = <<>>
    /\ seen_ids = {}

\* no get_life360_api call is modelled: the process has not started
SessionsIdle ==
    /\ environ = None
    /\ app_state = [default_session |-> Absent]
    /\ active_sessions = [token \in {} |-> 0]
    /\ created = <<>>
    /\ calls = <<>>
    /\ lifespanPc = "startup"

HandlerIdle ==
    /\ op = [name |-> "none", only_active |-> FALSE]
    /\ pc = "idle"
    /\ circles = <<>>
    /\ idx = 0
    /\ result = <<>>
    /\ response = Pending
    /\ log = <<>>
    /\ DrivingIdle

InitLocation ==
    /\ rawLocation \in RawLocations
    /\ locationOut = Pending
    /\ rawMember = None
    /\ statusOut = Pending
    /\ summaryOut = Pending
    /\ summaryAgain = Pending
    /\ HandlerIdle
    /\ SessionsIdle

CallParseLocation ==
    /\ locationOut = Pending
    /\ locationOut' = parse_location(rawLocation)
    /\ UNCHANGED <<rawLocation, rawMember, statusOut, summaryOut, summaryAgain,
                 handlerVars, sessionVars>>

NextLocation == CallParseLocation

SpecLocation == InitLocation /\ [][NextLocation]_vars

(***************************************************************************)
(* Claims about parse_location (SpecLocation)                              *)
(***************************************************************************)
LocationReturned == locationOut # Pending
IsMapping(v) == v.t = "dict"

\* the value under key is there and float() does not accept it
Unconvertible(v, key) == v.d[key] # Absent /\ ~PyFloat(v.d[key]).ok
\* the value under key is missing (read as 0) or float() accepts it
CoordinateParses(v, key) == v.d[key] = Absent \/ PyFloat(v.d[key]).ok

FloatInRange(x, lo, hi) == x.k = "fin" /\ lo * x.d <= x.n /\ x.n <= hi * x.d

\* C2: a raw location whose latitude or longitude cannot be converted to a
\* number makes parse_location return None, never a Location built from the
\* remaining fields.
C2_UnparsableCoordinateRejected ==
    (LocationReturned /\ IsMapping(rawLocation)
        /\ (Unconvertible(rawLocation, "latitude")
            \/ Unconvertible(rawLocation, "longitude")))
    => locationOut = None

\* C2 witness: latitude "abc" beside a good longitude, accuracy and battery
C2_Witness ==
    /\ LocationReturned
    /\ IsMapping(rawLocation)
    /\ rawLocation.d.latitude = S(<<"a", "b", "c">>)
    /\ rawLocation.d.longitude = S(<<"-", "7", "4", ".", "0">>)
    /\ rawLocation.d.accuracy = S(<<"6", "5">>)
    /\ rawLocation.d.battery = I(85)
    /\ rawLocation.d.name = S(<<"H", "o", "m", "e">>)
    /\ locationOut = None

\* the fields C3 does not range over are well formed
NamesWellFormed(v) ==
    \A key \in {"name", "address1", "address2"} :
        v.d[key] = Absent \/ IsOptionalStr(v.d[key])

\* C3: a non-empty raw location whose latitude and longitude both parse gives
\* a Location whatever accuracy, battery, speed, timestamp and isDriving hold.
C3_OtherFieldsNeverReject ==
    (LocationReturned /\ IsMapping(rawLocation) /\ Truthy(rawLocation)
        /\ CoordinateParses(rawLocation, "latitude")
        /\ CoordinateParses(rawLocation, "longitude")
        /\ NamesWellFormed(rawLocation))
    => locationOut.t = "Location"

\* accuracy as C3 reads it: a number >= 0 after truncation, or a value that
\* degrades to the default
AccuracyAccepted(v) ==
    LET r == IntOfFloatOf(Get(v.d, "accuracy", I(0)))
    IN  Caught(r) \/ (r.ok /\ r.v >= 0)

\* the battery C4 states: float, then truncation, then the clamp to [0,100];
\* absent when the raw value is absent, null or has no such conversion
ClaimedBattery(v) ==
    LET b == Get(v.d, "battery", None)
        f == PyFloat(b)
        n == IntOfFloat(f.v)
    IN  IF IsNone(b) \/ ~f.ok THEN None
        ELSE IF ~n.ok THEN None
        ELSE I(IF n.v < 0 THEN 0 ELSE IF n.v > 100 THEN 100 ELSE n.v)

\* C4: the battery of the Location is the raw battery through float, then
\* truncation, then the clamp to [0,100]; an absent or unparsable battery
\* gives an absent battery in an otherwise valid Location.
C4_BatteryTruncatedAndClamped ==
    (LocationReturned /\ IsMapping(rawLocation) /\ Truthy(rawLocation)
        /\ CoordinateParses(rawLocation, "latitude")
        /\ CoordinateParses(rawLocation, "longitude")
        /\ NamesWellFormed(rawLocation)
        /\ AccuracyAccepted(rawLocation))
    => (locationOut.t = "Location"
        /\ locationOut.battery = ClaimedBattery(rawLocation))

\* C5: every Location parse_location returns has latitude in [-90,90],
\* longitude in [-180,180], accuracy >= 0, battery absent or in [0,100] and
\* speed absent or >= 0.
C5_LocationInRange ==
    (LocationReturned /\ locationOut.t = "Location")
    => (/\ FloatInRange(locationOut.latitude, -90, 90)
        /\ FloatInRange(locationOut.longitude, -180, 180)
        /\ locationOut.accuracy >= 0
        /\ (IsNone(locationOut.battery)
            \/ (locationOut.battery.i >= 0 /\ locationOut.battery.i <= 100))
        /\ (IsNone(locationOut.speed)
            \/ (locationOut.speed.f.k = "fin" /\ locationOut.speed.f.n >= 0)))

(***************************************************************************)
(* services/life360_helpers.py: parse_member_status                        *)
(***************************************************************************)
\* member.get(key, {}).get(sub): AttributeError unless the value under key
\* is a mapping (None has no .get)
GetNested(m, key, sub) ==
    IF m[key] = Absent THEN Ok(None)
    ELSE IF m[key].t # "dict" THEN Raise("AttributeError")
    ELSE Ok(Get(m[key].d, sub, None))

\* member.get("location"): None when the key is missing
MemberLocation(m) == Get(m, "location", None)

\* a slip: a location that does not parse counts as no location
StatusOf_ParsedLocation(m, disc, share) ==
    IF ~disc.ok THEN disc
    ELSE IF disc.v = S(<<"1">>) THEN Ok("Disconnected")
    ELSE IF ~share.ok THEN share
    ELSE IF share.v = S(<<"0">>) THEN Ok("Location Off")
    ELSE IF IsNone(parse_location(MemberLocation(m))) THEN Ok("No Location")
    ELSE Ok("Active")

\* lines 24-35: the if/elif chain, given the outcomes of the two nested
\* lookups (the second is evaluated only when the first test is false)
StatusOf(m, disc, share) ==
    IF ~disc.ok THEN disc
    ELSE IF disc.v = S(<<"1">>) THEN Ok("Disconnected")
    ELSE IF ~share.ok THEN share
    ELSE IF share.v = S(<<"0">>) THEN Ok("Location Off")
    ELSE IF IsNone(MemberLocation(m)) THEN Ok("No Location")
    ELSE Ok("Active")

\* a slip: shareLocation tested before disconnected
StatusShareFirst(m, disc, share) ==
    IF ~share.ok THEN share
    ELSE IF share.v = S(<<"0">>) THEN Ok("Location Off")
    ELSE IF ~disc.ok THEN disc
    ELSE IF disc.v = S(<<"1">>) THEN Ok("Disconnected")
    ELSE IF IsNone(MemberLocation(m)) THEN Ok("No Location")
    ELSE Ok("Active")
parse_member_status_ShareFirst(m) ==
    StatusShareFirst(m, GetNested(m, "issues", "disconnected"),
                     GetNested(m, "features", "shareLocation"))

\* parse_member_status(member): the status, or the exception raised
parse_member_status(m) ==
    StatusOf(m, GetNested(m, "issues", "disconnected"),
             GetNested(m, "features", "shareLocation"))

(***************************************************************************)
(* models/responses.py: MemberSummary                                      *)
(***************************************************************************)
Statuses == {"Active", "Disconnected", "Location Off", "No Location"}

\* MemberSummary(**fields): the validated object, or ValidationError
MemberSummary(fields) ==
    IF fields.id.t # "str"
       \/ fields.firstName.t # "str"
       \/ ~IsOptionalStr(fields.lastName)
       \/ fields.status \notin Statuses
       \/ ~IsOptionalStr(fields.avatar)
       \/ ~IsOptionalStr(fields.phone)
       \/ ~IsOptionalStr(fields.email)
    THEN Raise("ValidationError")
    ELSE Ok([t |-> "Member",
             id |-> fields.id,
             first_name |-> fields.firstName,
             last_name |-> fields.lastName,
             full_name |-> fields.full_name,
             status |-> fields.status,
             location |-> fields.location,
             avatar |-> fields.avatar,
             phone |-> fields.phone,
             email |-> fields.email])

(***************************************************************************)
(* services/life360_helpers.py: create_member_summary                      *)
(***************************************************************************)
\* a slip: .strip() left out
FullName_Unstripped(first, last) == PyStr(first) \o <<" ">> \o PyStr(last)

\* f"{first} {last}".strip()
FullName(first, last) == Strip(PyStr(first) \o <<" ">> \o PyStr(last))

RECURSIVE ScanCommunications_LastWins(_, _, _)
\* a slip: the `not phone` / `not email` guards left out
ScanCommunications_LastWins(items, phone, email) ==
    IF items = <<>> THEN [phone |-> phone, email |-> email]
    ELSE LET comm == Head(items)
         IN  IF comm.channel = "Voice"
             THEN ScanCommunications_LastWins(Tail(items), Get(comm, "value", None), email)
             ELSE IF comm.channel = "Email"
             THEN ScanCommunications_LastWins(Tail(items), phone, Get(comm, "value", None))
             ELSE ScanCommunications_LastWins(Tail(items), phone, email)

RECURSIVE ScanCommunications(_, _, _)
\* lines 143-147: the for loop over communications, carrying phone and email
ScanCommunications(items, phone, email) ==
    IF items = <<>> THEN [phone |-> phone, email |-> email]
    ELSE LET comm == Head(items)
         IN  IF comm.channel = "Voice" /\ ~Truthy(phone)
             THEN ScanCommunications(Tail(items), Get(comm, "value", None), email)
             ELSE IF comm.channel = "Email" /\ ~Truthy(email)
             THEN ScanCommunications(Tail(items), phone, Get(comm, "value", None))
             ELSE ScanCommunications(Tail(items), phone, email)

\* lines 138-147: phone and email, or the exception of iterating a value
\* that is no list of mappings
Contact(comms, phone, email) ==
    IF Truthy(phone) /\ Truthy(email)
    THEN Ok([phone |-> phone, email |-> email])
    ELSE IF comms = Absent THEN Ok([phone |-> phone, email |-> email])
    ELSE IF comms.t = "none" THEN Raise("TypeError")
    ELSE IF comms.t # "comms" THEN Raise("AttributeError")
    ELSE Ok(ScanCommunications(comms.items, phone, email))
ResolveContact(m) ==
    Contact(m.communications, Get(m, "loginPhone", None),
            Get(m, "loginEmail", None))

\* create_member_summary(member): the MemberSummary, or the exception raised
\* lines 150-160: the MemberSummary(...) call, given the names, the contact
\* resolved and the outcome of parse_member_status
BuildSummary(m, first, last, contact, status) ==
    IF ~contact.ok THEN contact
    ELSE IF m.id = Absent THEN Raise("KeyError")
    ELSE IF ~status.ok THEN status
    ELSE MemberSummary(
             [id |-> m.id,
              firstName |-> first,
              lastName |-> last,
              full_name |-> FullName(first, last),
              status |-> status.v,
              location |-> parse_location(MemberLocation(m)),
              avatar |-> Get(m, "avatar", None),
              phone |-> contact.v.phone,
              email |-> contact.v.email])

create_member_summary(m) ==
    BuildSummary(m, Get(m, "firstName", S(<<>>)), Get(m, "lastName", S(<<>>)),
                 ResolveContact(m), parse_member_status(m))

(***************************************************************************)
(* Inputs drawn for the member helpers                                     *)
(***************************************************************************)
\* longest communications list drawn
MaxComms == 2

SeqsUpTo(set, n) == UNION {[1..k -> set] : k \in 0..n}

NoKeys ==
    [latitude |-> Absent, longitude |-> Absent, accuracy |-> Absent,
     battery |-> Absent, speed |-> Absent, isDriving |-> Absent,
     timestamp |-> Absent, name |-> Absent, address1 |-> Absent,
     address2 |-> Absent]

\* a raw location with good coordinates and the given battery and isDriving
RawLoc(bat, drv) ==
    Dict([NoKeys EXCEPT !.latitude = S(<<"4", "5", ".", "5">>),
                        !.longitude = S(<<"-", "7", "4", ".", "0">>),
                        !.battery = bat,
                        !.isDriving = drv,
                        !.timestamp = S(<<"1", "7", "4", "9">>)])

\* a raw location parse_location rejects
RawLocBad == Dict([NoKeys EXCEPT !.latitude = S(<<"a", "b", "c">>)])
\* {}
RawLocEmpty == Dict(NoKeys)

CommValues == {S(<<"1">>), S(<<"2">>), S(<<>>)}
CommEntries == {[channel |-> c, value |-> v] : c \in {"Voice", "Email"}, v \in CommValues}
Comms(items) == [t |-> "comms", items |-> items]

IssuesVals ==
    {Absent, None, Dict([disconnected |-> Absent]),
     Dict([disconnected |-> S(<<"1">>)]), Dict([disconnected |-> S(<<"0">>)])}
FeaturesVals ==
    {Absent, None, Dict([shareLocation |-> S(<<"0">>)]),
     Dict([shareLocation |-> S(<<"1">>)])}
MemberLocationVals ==
    {Absent, None, RawLocEmpty, RawLocBad, RawLoc(I(85), S(<<"1">>))}

John == S(<<"J", "o", "h", "n">>)
Doe == S(<<"D", "o", "e">>)
Id1 == S(<<"m", "1">>)
Id2 == S(<<"m", "2">>)

\* raw members that vary what decides status, location and validation
RawMembersByStatus ==
    {[id |-> id, firstName |-> fn, lastName |-> ln, avatar |-> Absent,
      loginPhone |-> Absent, loginEmail |-> Absent, communications |-> cm,
      issues |-> iss, features |-> ft, location |-> loc] :
        id \in {Absent, Id1}, fn \in {Absent, None, John}, ln \in {Absent, Doe},
        cm \in {Absent, None, Comms(<<[channel |-> "Voice", value |-> S(<<"1">>)]>>)},
        iss \in IssuesVals, ft \in FeaturesVals, loc \in MemberLocationVals}

\* raw members that vary what decides phone and email
RawMembersByContact ==
    {[id |-> Id1, firstName |-> John, lastName |-> Doe, avatar |-> Absent,
      loginPhone |-> ph, loginEmail |-> em, communications |-> cm,
      issues |-> Absent, features |-> Absent, location |-> Absent] :
        ph \in {Absent, S(<<"9">>), S(<<>>)}, em \in {Absent, S(<<"8">>)},
        cm \in {Absent} \cup {Comms(items) : items \in SeqsUpTo(CommEntries, MaxComms)}}

\* raw members that vary the names
FirstNameVals == {Absent, John, S(<<>>), S(<<" ", "J">>), S(<<" ">>)}
LastNameVals == {Absent, None, Doe, S(<<>>), S(<<"D", " ">>)}
RawMembersByName ==
    {[id |-> Id1, firstName |-> fn, lastName |-> ln, avatar |-> Absent,
      loginPhone |-> Absent, loginEmail |-> Absent, communications |-> Absent,
      issues |-> Absent, features |-> Absent, location |-> Absent] :
        fn \in FirstNameVals, ln \in LastNameVals}

RawMembers == RawMembersByStatus \cup RawMembersByContact \cup RawMembersByName

(***************************************************************************)
(* SpecMember: parse_member_status and create_member_summary applied to    *)
(* one drawn raw member                                                    *)
(***************************************************************************)
InitMember ==
    /\ rawLocation = None
    /\ locationOut = Pending
    /\ rawMember \in RawMembers
    /\ statusOut = Pending
    /\ summaryOut = Pending
    /\ summaryAgain = Pending
    /\ HandlerIdle
    /\ SessionsIdle

CallParseMemberStatus ==
    /\ statusOut = Pending
    /\ statusOut' = parse_member_status(rawMember)
    /\ UNCHANGED <<rawLocation, locationOut, rawMember, summaryOut, summaryAgain,
                 handlerVars, sessionVars>>

\* a slip: the function consumes the communications it has read
CallCreateMemberSummary_Consuming ==
    /\ summaryOut = Pending
    /\ summaryOut' = create_member_summary(rawMember)
    /\ rawMember' = [rawMember EXCEPT !.communications = Absent]
    /\ UNCHANGED <<rawLocation, locationOut, statusOut, summaryAgain,
                   handlerVars, sessionVars>>

CallCreateMemberSummary ==
    /\ summaryOut = Pending
    /\ summaryOut' = create_member_summary(rawMember)
    /\ UNCHANGED <<rawLocation, locationOut, rawMember, statusOut, summaryAgain,
                 handlerVars, sessionVars>>

\* create_member_summary called once more on the argument of the first call;
\* the function only reads the mapping (member.get, member["id"])
CallCreateMemberSummaryAgain ==
    /\ summaryOut # Pending
    /\ summaryAgain = Pending
    /\ summaryAgain' = create_member_summary(rawMember)
    /\ UNCHANGED <<rawLocation, locationOut, rawMember, statusOut, summaryOut,
                   handlerVars, sessionVars>>

NextMember ==
    \/ CallParseMemberStatus
    \/ CallCreateMemberSummary
    \/ CallCreateMemberSummaryAgain

SpecMember == InitMember /\ [][NextMember]_vars

(***************************************************************************)
(* Claims about parse_member_status and create_member_summary (SpecMember) *)
(***************************************************************************)
StatusReturned == statusOut # Pending
SummaryReturned == summaryOut # Pending

MappingOrMissing(v) == v = Absent \/ v.t = "dict"
IsDisconnected(m) ==
    m.issues # Absent /\ m.issues.t = "dict"
        /\ m.issues.d.disconnected = S(<<"1">>)
SharingOff(m) ==
    m.features # Absent /\ m.features.t = "dict"
        /\ m.features.d.shareLocation = S(<<"0">>)
LocationMissing(m) == m.location = Absent \/ m.location = None

\* the status the fixed priority gives
ClaimedStatus(m) ==
    IF IsDisconnected(m) THEN "Disconnected"
    ELSE IF SharingOff(m) THEN "Location Off"
    ELSE IF LocationMissing(m) THEN "No Location"
    ELSE "Active"

\* C1: parse_member_status applies the fixed priority Disconnected, then
\* Location Off, then No Location, then Active: every status it returns is
\* the one the priority gives, and it returns one whenever issues and
\* features are mappings or missing.
C1_StatusPriority ==
    StatusReturned =>
        /\ statusOut.ok => statusOut.v = ClaimedStatus(rawMember)
        /\ (MappingOrMissing(rawMember.issues)
                /\ MappingOrMissing(rawMember.features)) => statusOut.ok

\* C1 witness: disconnected, sharing off and no location at once
C1_Witness ==
    /\ StatusReturned
    /\ IsDisconnected(rawMember)
    /\ SharingOff(rawMember)
    /\ LocationMissing(rawMember)
    /\ statusOut = Ok("Disconnected")

\* C6: create_member_summary fails if and only if the raw member has no id.
C6_FailsOnlyWithoutId ==
    SummaryReturned => (summaryOut.ok <=> rawMember.id # Absent)

\* values of the entries of a communications value on one channel, in order
RECURSIVE ChannelValues(_, _)
ChannelValues(items, channel) ==
    IF items = <<>> THEN <<>>
    ELSE (IF Head(items).channel = channel THEN <<Head(items).value>> ELSE <<>>)
             \o ChannelValues(Tail(items), channel)

CommItems(m) ==
    IF m.communications # Absent /\ m.communications.t = "comms"
    THEN m.communications.items
    ELSE <<>>

TopLevel(m, key) == IF m[key] = Absent THEN None ELSE m[key]

\* the contact C7 states: the top-level field when it holds a value, else the
\* value of the first entry on the channel
FirstEntryContact(m, key, channel) ==
    LET vs == ChannelValues(CommItems(m), channel)
    IN  IF Truthy(TopLevel(m, key)) \/ vs = <<>> THEN TopLevel(m, key)
        ELSE vs[1]

\* C7 as stated: phone is loginPhone when present, otherwise the value of the
\* first communications entry whose channel is "Voice"; email likewise with
\* loginEmail and "Email".
C7_FirstEntryOnChannel ==
    (SummaryReturned /\ summaryOut.ok) =>
        /\ summaryOut.v.phone = FirstEntryContact(rawMember, "loginPhone", "Voice")
        /\ summaryOut.v.email = FirstEntryContact(rawMember, "loginEmail", "Email")

\* the first non-empty value on the channel; with none, the last value
FirstFilledContact(m, key, channel) ==
    LET vs == ChannelValues(CommItems(m), channel)
        filled == {i \in 1..Len(vs) : Truthy(vs[i])}
    IN  IF Truthy(TopLevel(m, key)) \/ vs = <<>> THEN TopLevel(m, key)
        ELSE IF filled = {} THEN vs[Len(vs)]
        ELSE vs[CHOOSE i \in filled : \A j \in filled : i <= j]

\* C7 amended: phone is loginPhone when it is non-empty, otherwise the value
\* of the first "Voice" entry whose value is non-empty (with no such entry,
\* the value of the last "Voice" entry, or loginPhone when there is none);
\* email likewise; an entry never replaces a non-empty field.
C7_FirstFilledEntryOnChannel ==
    (SummaryReturned /\ summaryOut.ok) =>
        /\ summaryOut.v.phone = FirstFilledContact(rawMember, "loginPhone", "Voice")
        /\ summaryOut.v.email = FirstFilledContact(rawMember, "loginEmail", "Email")

\* C7 witness: no loginPhone, a "Voice" entry with an empty value, then one
\* with "2": the second is taken
C7_Witness ==
    /\ SummaryReturned
    /\ summaryOut.ok
    /\ rawMember.loginPhone = Absent
    /\ CommItems(rawMember) = <<[channel |-> "Voice", value |-> S(<<>>)],
                                [channel |-> "Voice", value |-> S(<<"2">>)]>>
    /\ summaryOut.v.phone = S(<<"2">>)

(***************************************************************************)
(* routers/members.py, routers/locations.py: the aggregation handlers      *)
(***************************************************************************)
\* a slip: the first value stored under a key is kept (setdefault)
DictSet_KeepFirst(d, key, value) ==
    IF \E i \in 1..Len(d) : d[i].k = key THEN d
    ELSE Append(d, [k |-> key, v |-> value])

\* result[key] = value on a dict kept as its (key, value) pairs in
\* insertion order: an existing key keeps its place and takes the new value
DictSet(d, key, value) ==
    IF \E i \in 1..Len(d) : d[i].k = key
    THEN [i \in 1..Len(d) |-> IF d[i].k = key THEN [k |-> key, v |-> value] ELSE d[i]]
    ELSE Append(d, [k |-> key, v |-> value])

\* [create_member_summary(member) for member in members_data]
Summaries(members) == [j \in 1..Len(members) |-> create_member_summary(members[j])]
AllOk(rs) == \A j \in 1..Len(rs) : rs[j].ok
Values(rs) == [j \in 1..Len(rs) |-> rs[j].v]

\* members.py lines 51-53: one iteration of get_all_members's loop, after the
\* members of the circle arrived
StoreMembers(acc, circle, rs) ==
    IF AllOk(rs) THEN Ok(DictSet(acc, circle.name, Values(rs))) ELSE Raise("Exception")
get_all_members_iteration(acc, circle, members) ==
    StoreMembers(acc, circle, Summaries(members))

\* a slip: `and m.location` left out
IsActiveWithLocation_StatusOnly(m) == m.status = "Active"

\* members.py line 89: m.status == "Active" and m.location
IsActiveWithLocation(m) == m.status = "Active" /\ ~IsNone(m.location)

RECURSIVE FilterActive(_)
\* members.py lines 87-91: the active members of each circle name, circle
\* names without any left out
FilterActive(d) ==
    IF d = <<>> THEN <<>>
    ELSE LET active == SelectSeq(Head(d).v, IsActiveWithLocation)
         IN  (IF active # <<>> THEN <<[k |-> Head(d).k, v |-> active]>> ELSE <<>>)
                 \o FilterActive(Tail(d))

\* locations.py lines 58-65
BatchMemberLocation(circle, m) ==
    [circle_id |-> circle.id, circle_name |-> circle.name, member_id |-> m.id,
     member_name |-> m.full_name, location |-> m.location, status |-> m.status]

\* a slip: `and member_summary.location` left out
IncludeLocation_StatusOnly(only_active, m) == ~only_active \/ m.status = "Active"

\* locations.py line 57: the filter of get_current_locations
IncludeLocation(only_active, m) ==
    ~only_active \/ (m.status = "Active" /\ ~IsNone(m.location))

\* locations.py lines 51-65: one iteration of get_current_locations's loop
\* over circles, after the members of the circle arrived
RECURSIVE AppendLocations(_, _, _, _)
\* locations.py lines 53-65: the inner for loop over the summaries ms
AppendLocations(acc, circle, ms, only_active) ==
    IF ms = <<>> THEN acc
    ELSE AppendLocations(
             IF IncludeLocation(only_active, Head(ms))
             THEN Append(acc, BatchMemberLocation(circle, Head(ms)))
             ELSE acc,
             circle, Tail(ms), only_active)

StoreLocations(acc, circle, rs, only_active) ==
    IF AllOk(rs) THEN Ok(AppendLocations(acc, circle, Values(rs), only_active))
    ELSE Raise("Exception")
get_current_locations_iteration(acc, circle, members, only_active) ==
    StoreLocations(acc, circle, Summaries(members), only_active)

(***************************************************************************)
(* routers/members.py: search_members                                      *)
(***************************************************************************)
UpperCase ==
    <<"A", "B", "C", "D", "E", "F", "G", "H", "I", "J", "K", "L", "M",
      "N", "O", "P", "Q", "R", "S", "T", "U", "V", "W", "X", "Y", "Z">>
LowerCase ==
    <<"a", "b", "c", "d", "e", "f", "g", "h", "i", "j", "k", "l", "m",
      "n", "o", "p", "q", "r", "s", "t", "u", "v", "w", "x", "y", "z">>

\* str.lower(), a character at a time
LowerChar(c) ==
    IF \E i \in 1..Len(UpperCase) : UpperCase[i] = c
    THEN LowerCase[CHOOSE i \in 1..Len(UpperCase) : UpperCase[i] = c]
    ELSE c
PyLower(s) == [i \in 1..Len(s) |-> LowerChar(s[i])]

\* sub in s, on strings
Contains(sub, s) ==
    \E i \in 0..(Len(s) - Len(sub)) : SubSeq(s, i + 1, i + Len(sub)) = sub

\* f"{member.get('firstName', '')} {member.get('lastName', '')}".strip()
MemberFullName(m) ==
    FullName(Get(m, "firstName", S(<<>>)), Get(m, "lastName", S(<<>>)))

\* a slip: the name compared as it is spelled, not in lower case
NameMatches_CaseSensitive(search_term, m) ==
    Contains(search_term, MemberFullName(m))

\* members.py line 141: search_term in full_name.lower()
NameMatches(search_term, m) ==
    Contains(search_term, PyLower(MemberFullName(m)))

\* members.py lines 142-146
MemberSearchResult(circle, member) ==
    [circle |-> circle.name, circle_id |-> circle.id, member |-> member]

RECURSIVE AppendMatches(_, _, _, _)
\* members.py lines 142-146: the match is summarised and appended, or
\* create_member_summary raises
AppendMatch(acc, circle, summary, rest, search_term) ==
    IF summary.ok
    THEN AppendMatches(Append(acc, MemberSearchResult(circle, summary.v)),
                       circle, rest, search_term)
    ELSE Raise("Exception")

\* members.py lines 137-146: the inner for loop over members_data
AppendMatches(acc, circle, members, search_term) ==
    IF members = <<>> THEN Ok(acc)
    ELSE IF NameMatches(search_term, Head(members))
    THEN AppendMatch(acc, circle, create_member_summary(Head(members)),
                     Tail(members), search_term)
    ELSE AppendMatches(acc, circle, Tail(members), search_term)

\* members.py lines 132-146: one iteration of search_members's loop over
\* circles, after the members of the circle arrived
search_members_iteration(acc, circle, members, name) ==
    AppendMatches(acc, circle, members, PyLower(name))

(***************************************************************************)
(* routers/analytics.py: get_statistics                                    *)
(***************************************************************************)
\* int("<digits>") with an optional sign; ValueError otherwise ("73.9", "")
IntOfDigits(u, neg) ==
    IF u = <<>> \/ ~AllDigits(u) THEN Raise("ValueError")
    ELSE Ok(IF neg THEN -DigitsVal(u) ELSE DigitsVal(u))
IntOfStripped(s) ==
    IF s # <<>> /\ Head(s) \in {"-", "+"}
    THEN IntOfDigits(Tail(s), Head(s) = "-")
    ELSE IntOfDigits(s, FALSE)

\* int(v)
PyInt(v) ==
    CASE v.t = "int" -> Ok(v.i)
      [] v.t = "float" -> IntOfFloat(v.f)
      [] v.t = "bool" -> Ok(IF v.b THEN 1 ELSE 0)
      [] v.t = "str" -> IntOfStripped(Strip(v.s))
      [] OTHER -> Raise("TypeError")

\* round(total / count, 1) in tenths: the nearest tenth, a tie to the even one
RoundTenths(total, count) ==
    IF 2 * ((10 * total) % count) < count THEN (10 * total) \div count
    ELSE IF 2 * ((10 * total) % count) > count THEN ((10 * total) \div count) + 1
    ELSE IF ((10 * total) \div count) % 2 = 0 THEN (10 * total) \div count
    ELSE ((10 * total) \div count) + 1

\* a slip: the `battery_count > 0` guard left out
AverageBattery_Unguarded(battery_sum, battery_count) ==
    IF battery_count = 0 THEN Raise("ZeroDivisionError")
    ELSE Ok(F(Fin(RoundTenths(battery_sum, battery_count), 10)))

\* analytics.py lines 90-92
AverageBattery(battery_sum, battery_count) ==
    IF battery_count > 0
    THEN Ok(F(Fin(RoundTenths(battery_sum, battery_count), 10)))
    ELSE Ok(None)

\* CircleStatistics(**fields): the validated object, or ValidationError
\* (average_battery is Optional[float] with ge=0, le=100)
CircleStatistics(fields) ==
    IF fields.total_members < 0 \/ fields.active_members < 0
       \/ fields.disconnected_members < 0 \/ fields.location_off_members < 0
    THEN Raise("ValidationError")
    ELSE IF ~IsNone(fields.average_battery)
            /\ (FloatLt(fields.average_battery.f, 0)
                \/ FloatGt(fields.average_battery.f, 100))
    THEN Raise("ValidationError")
    ELSE Ok(fields)

\* analytics.py lines 50-57
Counters ==
    [active |-> 0, disconnected |-> 0, location_off |-> 0, battery_sum |-> 0,
     battery_count |-> 0, latest_timestamp |-> 0]

\* analytics.py lines 69-74: the battery added, or the ValueError/TypeError
\* of int() passed over
AddBattery(acc, r) ==
    IF r.ok THEN Ok([acc EXCEPT !.battery_sum = @ + r.v, !.battery_count = @ + 1])
    ELSE IF Caught(r) THEN Ok(acc)
    ELSE r
\* analytics.py lines 68-74
TrackBattery(acc, d) ==
    IF Truthy(Get(d, "battery", None)) THEN AddBattery(acc, PyInt(d.battery))
    ELSE Ok(acc)

\* analytics.py lines 78-82
AddTimestamp(acc, r) ==
    IF r.ok THEN Ok([acc EXCEPT !.latest_timestamp = Max(@, r.v)])
    ELSE IF Caught(r) THEN Ok(acc)
    ELSE r
\* analytics.py lines 77-82
TrackTimestamp(acc, d) ==
    IF ~acc.ok THEN acc
    ELSE IF Truthy(Get(d, "timestamp", None))
    THEN AddTimestamp(acc.v, PyInt(d.timestamp))
    ELSE acc

\* analytics.py lines 64-82: an Active member; location.get raises unless
\* the location is a mapping
CountActive(acc, location) ==
    IF location.t # "dict" THEN Raise("AttributeError")
    ELSE TrackTimestamp(TrackBattery([acc EXCEPT !.active = @ + 1], location.d),
                        location.d)

\* a slip: a member with no location counted under location_off
CountMember_NoLocationAsOff(acc, status, m) ==
    IF ~status.ok THEN status
    ELSE IF status.v = "Active" THEN CountActive(acc, MemberLocation(m))
    ELSE IF status.v = "Disconnected"
    THEN Ok([acc EXCEPT !.disconnected = @ + 1])
    ELSE Ok([acc EXCEPT !.location_off = @ + 1])

\* analytics.py lines 61-87: one member, given the outcome of
\* parse_member_status
CountMember(acc, status, m) ==
    IF ~status.ok THEN status
    ELSE IF status.v = "Active" THEN CountActive(acc, MemberLocation(m))
    ELSE IF status.v = "Disconnected"
    THEN Ok([acc EXCEPT !.disconnected = @ + 1])
    ELSE IF status.v = "Location Off"
    THEN Ok([acc EXCEPT !.location_off = @ + 1])
    ELSE Ok(acc)

RECURSIVE CountMembers(_, _)
\* analytics.py lines 60-87: the for loop over members_data
CountMembers(acc, members) ==
    IF ~acc.ok \/ members = <<>> THEN acc
    ELSE CountMembers(CountMember(acc.v, parse_member_status(Head(members)),
                                  Head(members)),
                      Tail(members))

\* analytics.py lines 94-97: datetime.now(), or the latest timestamp
LastUpdate(latest_timestamp) ==
    IF latest_timestamp > 0 THEN I(latest_timestamp) ELSE S(<<"n", "o", "w">>)

\* analytics.py lines 89-108: the circle's entry from the counters
CircleEntry(circle, total, counted, avg_battery) ==
    IF ~counted.ok THEN counted
    ELSE IF ~avg_battery.ok THEN avg_battery
    ELSE CircleStatistics(
             [circle_id |-> circle.id,
              circle_name |-> circle.name,
              total_members |-> total,
              active_members |-> counted.v.active,
              disconnected_members |-> counted.v.disconnected,
              location_off_members |-> counted.v.location_off,
              average_battery |-> avg_battery.v,
              last_update |-> LastUpdate(counted.v.latest_timestamp)])

CircleEntryOf(circle, total, counted) ==
    CircleEntry(circle, total, counted,
                IF counted.ok
                THEN AverageBattery(counted.v.battery_sum, counted.v.battery_count)
                ELSE counted)

\* stats.append(...), or the exception of the iteration
AppendOk(acc, r) == IF r.ok THEN Ok(Append(acc, r.v)) ELSE Raise("Exception")

\* analytics.py lines 47-108: one iteration of get_statistics's loop over
\* circles, after the members of the circle arrived
get_statistics_iteration(acc, circle, members) ==
    AppendOk(acc, CircleEntryOf(circle, Len(members),
                                CountMembers(Ok(Counters), members)))

(***************************************************************************)
(* routers/analytics.py: get_low_battery_members                           *)
(***************************************************************************)
\* LowBatteryMember(**fields): the validated object, or ValidationError
\* (battery is an int with ge=0, le=100; location is a str)
LowBatteryMember(fields) ==
    IF fields.battery < 0 \/ fields.battery > 100 THEN Raise("ValidationError")
    ELSE IF fields.location.t # "str" THEN Raise("ValidationError")
    ELSE Ok(fields)

\* analytics.py lines 162-170: the entry of a member whose battery is at
\* most the threshold
LowBatteryEntry(circle, m, d, battery) ==
    LowBatteryMember(
        [circle |-> circle.name,
         member |-> MemberFullName(m),
         battery |-> battery,
         location |-> Get(d, "name", S(<<"U", "n", "k", "n", "o", "w", "n">>))])

\* analytics.py lines 165-172: the entry appended, or its ValidationError (a
\* ValueError) passed over by the except clause
AfterTry(acc, r) ==
    IF r.ok THEN Ok(Append(acc, r.v))
    ELSE IF r.err \in {"ValueError", "TypeError", "ValidationError"} THEN Ok(acc)
    ELSE r

\* analytics.py lines 159-172: the try, given the outcome of int()
TryBattery(acc, circle, m, d, battery, threshold) ==
    IF Caught(battery) THEN Ok(acc)
    ELSE IF ~battery.ok THEN battery
    ELSE IF battery.v <= threshold
    THEN AfterTry(acc, LowBatteryEntry(circle, m, d, battery.v))
    ELSE Ok(acc)

\* analytics.py lines 155-172: an Active member with a truthy location
CheckBattery(acc, circle, m, location, threshold) ==
    IF location.t # "dict" THEN Raise("AttributeError")
    ELSE IF ~Truthy(Get(location.d, "battery", None)) THEN Ok(acc)
    ELSE TryBattery(acc, circle, m, location.d, PyInt(location.d.battery),
                    threshold)

\* analytics.py lines 153-172: one member, given the outcome of
\* parse_member_status
CheckMember(acc, circle, m, status, threshold) ==
    IF ~status.ok THEN status
    ELSE IF status.v = "Active" /\ Truthy(MemberLocation(m))
    THEN CheckBattery(acc, circle, m, MemberLocation(m), threshold)
    ELSE Ok(acc)

RECURSIVE CheckMembers(_, _, _, _)
\* analytics.py lines 151-172: the for loop over members_data
CheckMembers(acc, circle, members, threshold) ==
    IF ~acc.ok \/ members = <<>> THEN acc
    ELSE CheckMembers(CheckMember(acc.v, circle, Head(members),
                                  parse_member_status(Head(members)), threshold),
                      circle, Tail(members), threshold)

OrException(r) == IF r.ok THEN r ELSE Raise("Exception")

\* analytics.py lines 148-172: one iteration of get_low_battery_members's
\* loop over circles, after the members of the circle arrived
get_low_battery_members_iteration(acc, circle, members, threshold) ==
    OrException(CheckMembers(Ok(acc), circle, members, threshold))

RECURSIVE InsertByBattery(_, _)
\* x placed after every entry whose battery is not greater
InsertByBattery(sorted, x) ==
    IF sorted = <<>> THEN <<x>>
    ELSE IF Head(sorted).battery <= x.battery
    THEN <<Head(sorted)>> \o InsertByBattery(Tail(sorted), x)
    ELSE <<x>> \o sorted

RECURSIVE SortFrom(_, _)
SortFrom(sorted, rest) ==
    IF rest = <<>> THEN sorted
    ELSE SortFrom(InsertByBattery(sorted, Head(rest)), Tail(rest))

\* a slip: the sort left out
SortByBattery_Unsorted(low_battery) == low_battery

\* analytics.py line 175: low_battery.sort(key=lambda x: x.battery), a
\* stable sort
SortByBattery(low_battery) == SortFrom(<<>>, low_battery)

(***************************************************************************)
(* Upstream data drawn for the handlers                                    *)
(***************************************************************************)
\* most circles in one get_circles response
MaxCircles == 2
\* most members in one get_circle_members response
MaxMembers == 2

\* the account's circles, in upstream order; two share a name
AllCircles ==
    <<[id |-> "c1", name |-> "Family"], [id |-> "c2", name |-> "Work"],
      [id |-> "c3", name |-> "Family"]>>

RECURSIVE Ascending(_)
\* the elements of a set of numbers as an ascending sequence
Ascending(set) ==
    IF set = {} THEN <<>>
    ELSE LET lo == CHOOSE x \in set : \A y \in set : x <= y
         IN  <<lo>> \o Ascending(set \ {lo})

\* the circle lists drawn: AllCircles with some circles left out
CircleLists ==
    {[k \in 1..Cardinality(pick) |-> AllCircles[Ascending(pick)[k]]] :
        pick \in {q \in SUBSET (1..Len(AllCircles)) : Cardinality(q) <= MaxCircles}}

BareMember(id, first) ==
    [id |-> id, firstName |-> first, lastName |-> Doe, avatar |-> Absent,
     loginPhone |-> Absent, loginEmail |-> Absent, communications |-> Absent,
     issues |-> Absent, features |-> Absent, location |-> Absent]

\* Active, with a location that parses
MemberActive ==
    [BareMember(Id1, John) EXCEPT !.location = RawLoc(I(85), S(<<"1">>))]
\* Active, with a location parse_location rejects
MemberNoFix ==
    [BareMember(Id2, S(<<"A", "n", "n">>)) EXCEPT !.location = RawLocBad]
\* Disconnected, with a location that parses
MemberDisconnected ==
    [BareMember(S(<<"m", "3">>), S(<<"B", "o", "b">>)) EXCEPT
        !.issues = Dict([disconnected |-> S(<<"1">>)]),
        !.location = RawLoc(I(15), S(<<"0">>))]
\* a record create_member_summary raises on ("issues": null)
MemberBroken ==
    [BareMember(S(<<"m", "4">>), S(<<"E", "v", "e">>)) EXCEPT !.issues = None]

MemberPool == {MemberActive, MemberNoFix, MemberDisconnected, MemberBroken}

\* the member lists drawn: no member twice in one circle
MemberLists ==
    {s \in SeqsUpTo(MemberPool, MaxMembers) :
        \A i, j \in 1..Len(s) : i # j => s[i] # s[j]}

\* Active members that differ in the raw battery of their location
BatteryMember(id, first, battery) ==
    [BareMember(S(id), S(first)) EXCEPT !.location = RawLoc(battery, S(<<"0">>))]
Bat15 == BatteryMember(<<"b", "1">>, <<"A", "l">>, S(<<"1", "5">>))
Bat20 == BatteryMember(<<"b", "2">>, <<"B", "e", "a">>, S(<<"2", "0">>))
Bat21 == BatteryMember(<<"b", "3">>, <<"C", "y">>, S(<<"2", "1">>))
Bat5 == BatteryMember(<<"b", "4">>, <<"D", "i">>, I(5))
BatNegative == BatteryMember(<<"b", "5">>, <<"E", "d">>, S(<<"-", "5">>))
BatteryRoster == <<Bat15, Bat20, Bat21, Bat5, BatNegative>>

\* Active, with a raw battery of "60.5" and a raw timestamp of "0"
MemberEpoch ==
    [BareMember(S(<<"s", "1">>), S(<<"F", "a", "y">>)) EXCEPT
        !.location = Dict([RawLoc(S(<<"6", "0", ".", "5">>), S(<<"0">>)).d
                               EXCEPT !.timestamp = S(<<"0">>)])]
\* Location Off, with a location that parses
MemberSharingOff ==
    [BareMember(S(<<"s", "2">>), S(<<"G", "u", "s">>)) EXCEPT
        !.features = Dict([shareLocation |-> S(<<"0">>)]),
        !.location = RawLoc(I(40), S(<<"0">>))]
\* No Location
MemberUnlocated == BareMember(S(<<"s", "3">>), S(<<"H", "a", "l">>))
\* the members get_statistics is run on: every status, batteries and
\* timestamps the analytics code and the parser read differently
StatisticsRoster ==
    <<Bat15, BatNegative, MemberEpoch, MemberNoFix, MemberDisconnected,
      MemberSharingOff, MemberUnlocated>>

\* a driver, the same member disconnected, and a second driver
DriverA == MemberActive
DriverADisconnected ==
    [DriverA EXCEPT !.issues = Dict([disconnected |-> S(<<"1">>)])]
DriverB ==
    [BareMember(Id2, S(<<"A", "n", "n">>)) EXCEPT
        !.location = RawLoc(I(50), S(<<"1">>))]
DriverRoster == <<DriverA, DriverADisconnected, DriverB>>

\* the members search_members is run on: three names, one record that
\* create_member_summary rejects
SearchRoster == <<MemberBroken, MemberActive, MemberNoFix, MemberDisconnected>>

\* the member lists drawn from a roster: some of its members, in its order
ListsFrom(roster) ==
    {[k \in 1..Cardinality(pick) |-> roster[Ascending(pick)[k]]] :
        pick \in {q \in SUBSET (1..Len(roster)) : Cardinality(q) <= MaxMembers}}

\* what get_circle_members may answer to the running handler
UpstreamMembers ==
    CASE op.name = "get_low_battery_members" -> ListsFrom(BatteryRoster)
      [] op.name = "get_statistics" -> ListsFrom(StatisticsRoster)
      [] op.name = "get_driving_members" -> ListsFrom(DriverRoster)
      [] op.name = "search_members" -> ListsFrom(SearchRoster)
      [] OTHER -> MemberLists

HandlerCalls ==
    {[name |-> "get_all_members", only_active |-> FALSE],
     [name |-> "get_active_members", only_active |-> FALSE],
     [name |-> "get_current_locations", only_active |-> TRUE],
     [name |-> "get_current_locations", only_active |-> FALSE]}

(***************************************************************************)
(* SpecRoutes: one call of an aggregation handler against the upstream     *)
(***************************************************************************)
InitRoutes ==
    /\ rawLocation = None
    /\ locationOut = Pending
    /\ rawMember = None
    /\ statusOut = Pending
    /\ summaryOut = Pending
    /\ summaryAgain = Pending
    /\ op \in HandlerCalls
    /\ pc = "start"
    /\ circles = <<>>
    /\ idx = 0
    /\ result = <<>>
    /\ response = Pending
    /\ log = <<>>
    /\ DrivingIdle
    /\ SessionsIdle

HTTPException500 == [status |-> 500, body |-> <<>>]
Returned(body) == [status |-> 200, body |-> body]

\* circles = await api.get_circles()
AwaitGetCircles ==
    /\ pc = "start"
    /\ \E cs \in CircleLists :
        /\ circles' = cs
        /\ log' = Append(log, [call |-> "get_circles", arg |-> "", ok |-> TRUE,
                               resp |-> cs])
    /\ pc' = "loop"
    /\ UNCHANGED <<helperVars, sessionVars, drivingVars, op, idx, result, response>>

\* the body of the running handler's for loop for one circle
Iteration(circle, ms) ==
    CASE op.name = "get_current_locations" ->
             get_current_locations_iteration(result, circle, ms, op.only_active)
      [] op.name = "get_driving_members" ->
             get_current_locations_iteration(result, circle, ms, TRUE)
      [] op.name = "search_members" ->
             search_members_iteration(result, circle, ms, op.search)
      [] op.name = "get_statistics" ->
             get_statistics_iteration(result, circle, ms)
      [] op.name = "get_low_battery_members" ->
             get_low_battery_members_iteration(result, circle, ms, op.threshold)
      [] OTHER -> get_all_members_iteration(result, circle, ms)

\* the iteration went through, or raised into except Exception
IterationEnds(r) ==
    IF r.ok
    THEN /\ result' = r.v
         /\ idx' = idx + 1
         /\ UNCHANGED <<pc, response>>
    ELSE /\ pc' = "failed"
         /\ response' = HTTPException500
         /\ UNCHANGED <<idx, result>>

\* members_data = await api.get_circle_members(circle["id"]) for the next
\* circle, and the rest of that iteration of the for loop
AwaitGetCircleMembers ==
    /\ pc = "loop"
    /\ idx < Len(circles)
    /\ \E ms \in UpstreamMembers :
        /\ log' = Append(log, [call |-> "get_circle_members",
                               arg |-> circles[idx + 1].id, ok |-> TRUE,
                               resp |-> ms])
        /\ IterationEnds(Iteration(circles[idx + 1], ms))
    /\ UNCHANGED <<helperVars, sessionVars, drivingVars, op, circles>>

\* a slip: the failure of an upstream call ends the loop and what was
\* gathered so far is returned
UpstreamCallFails_Partial ==
    /\ pc \in {"start", "loop"}
    /\ pc = "loop" => idx < Len(circles)
    /\ log' = Append(log, [call |-> IF pc = "start" THEN "get_circles"
                                    ELSE "get_circle_members",
                           arg |-> IF pc = "start" THEN "" ELSE circles[idx + 1].id,
                           ok |-> FALSE, resp |-> <<>>])
    /\ pc' = "done"
    /\ response' = Returned(result)
    /\ UNCHANGED <<helperVars, sessionVars, drivingVars, op, circles, idx, result>>

\* an upstream call raises: except Exception -> HTTPException(500)
UpstreamCallFails ==
    /\ pc \in {"start", "loop"}
    /\ pc = "loop" => idx < Len(circles)
    /\ log' = Append(log, [call |-> IF pc = "start" THEN "get_circles"
                                    ELSE "get_circle_members",
                           arg |-> IF pc = "start" THEN "" ELSE circles[idx + 1].id,
                           ok |-> FALSE, resp |-> <<>>])
    /\ pc' = "failed"
    /\ response' = HTTPException500
    /\ UNCHANGED <<helperVars, sessionVars, drivingVars, op, circles, idx, result>>

\* what the handler returns once its loop over circles is over
ReturnValue ==
    CASE op.name = "get_active_members" -> FilterActive(result)
      [] op.name = "get_low_battery_members" -> SortByBattery(result)
      [] OTHER -> result

\* the for loop is over: the handler returns
Return ==
    /\ pc = "loop"
    /\ idx = Len(circles)
    /\ op.name # "get_driving_members"
    /\ pc' = "done"
    /\ response' = Returned(ReturnValue)
    /\ UNCHANGED <<helperVars, sessionVars, drivingVars, op, circles, idx, result, log>>

NextRoutes ==
    \/ AwaitGetCircles
    \/ AwaitGetCircleMembers
    \/ UpstreamCallFails
    \/ Return

SpecRoutes == InitRoutes /\ [][NextRoutes]_vars

(***************************************************************************)
(* Claims about the aggregation handlers (SpecRoutes)                      *)
(***************************************************************************)
Completed(name) == pc = "done" /\ op.name = name

\* the members get_circle_members returned for the i-th circle of the list
Fetched(i) == log[i + 1].resp
\* their normalized form, in upstream order
Normalized(ms) == [j \in 1..Len(ms) |-> create_member_summary(ms[j]).v]

CircleNames == {circles[i].name : i \in 1..Len(circles)}
\* the position of the last circle of the upstream list with this name
LastNamed(name) ==
    CHOOSE i \in 1..Len(circles) :
        circles[i].name = name /\ \A j \in (i + 1)..Len(circles) : circles[j].name # name

KeysDistinct(d) == \A a, b \in 1..Len(d) : a # b => d[a].k # d[b].k
Keys(d) == {d[a].k : a \in 1..Len(d)}

\* C8: get_all_members returns one key per distinct circle name, mapped to
\* the normalized members of a circle in upstream order; of two circles with
\* one name the later circle's members are stored and the earlier's are not.
C8_LaterCircleOverwrites ==
    Completed("get_all_members") =>
        /\ response.status = 200
        /\ KeysDistinct(response.body)
        /\ Keys(response.body) = CircleNames
        /\ \A a \in 1..Len(response.body) :
               response.body[a].v = Normalized(Fetched(LastNamed(response.body[a].k)))

\* C8 witness: two circles named Family with different members
C8_Witness ==
    /\ Completed("get_all_members")
    /\ circles = <<AllCircles[1], AllCircles[3]>>
    /\ Fetched(1) = <<MemberActive>>
    /\ Fetched(2) = <<MemberDisconnected, MemberNoFix>>
    /\ Len(response.body) = 1
    /\ Len(response.body[1].v) = 2

ActiveAndLocated(m) == m.status = "Active" /\ m.location.t = "Location"
\* what get_all_members holds under a circle name, and the active part of it
AllUnder(name) == Normalized(Fetched(LastNamed(name)))
ActiveUnder(name) == SelectSeq(AllUnder(name), ActiveAndLocated)

\* C9: get_active_members returns, for each circle name, exactly the members
\* of get_all_members under that name that are Active with a parsed location,
\* in the same order; a name with no such member is no key, so no key maps
\* to an empty list.
C9_ActiveMembersFiltered ==
    Completed("get_active_members") =>
        /\ response.status = 200
        /\ KeysDistinct(response.body)
        /\ Keys(response.body) = {n \in CircleNames : ActiveUnder(n) # <<>>}
        /\ \A a \in 1..Len(response.body) :
               /\ response.body[a].v # <<>>
               /\ response.body[a].v = ActiveUnder(response.body[a].k)

\* C9 witness: one circle keeps one of its two Active members (the other has
\* no parsed location), the other circle has no active member and is dropped
C9_Witness ==
    /\ Completed("get_active_members")
    /\ circles = <<AllCircles[1], AllCircles[2]>>
    /\ Fetched(1) = <<MemberNoFix, MemberActive>>
    /\ Fetched(2) = <<MemberDisconnected>>
    /\ Keys(response.body) = {"Family"}
    /\ Len(response.body[1].v) = 1

Qualifies(m) == ~op.only_active \/ ActiveAndLocated(m)
ExpectedEntry(i, m) ==
    [circle_id |-> circles[i].id, circle_name |-> circles[i].name,
     member_id |-> m.id, member_name |-> m.full_name,
     location |-> m.location, status |-> m.status]
QualifiedOf(i) == SelectSeq(Normalized(Fetched(i)), Qualifies)
EntriesOf(i) == [j \in 1..Len(QualifiedOf(i)) |-> ExpectedEntry(i, QualifiedOf(i)[j])]

RECURSIVE EntriesFrom(_)
EntriesFrom(i) == IF i > Len(circles) THEN <<>> ELSE EntriesOf(i) \o EntriesFrom(i + 1)

RECURSIVE MembersFrom(_)
MembersFrom(i) == IF i > Len(circles) THEN 0 ELSE Len(Fetched(i)) + MembersFrom(i + 1)

\* C10: get_current_locations returns one entry per (circle, member) pair in
\* circle-then-member upstream order; with only_active false every member of
\* every circle appears once per circle, with its parsed location or None;
\* with only_active true exactly the Active members with a parsed location.
C10_LocationsFlattened ==
    Completed("get_current_locations") =>
        /\ response.status = 200
        /\ response.body = EntriesFrom(1)
        /\ ~op.only_active => Len(response.body) = MembersFrom(1)
        /\ op.only_active =>
               \A a \in 1..Len(response.body) :
                   /\ response.body[a].status = "Active"
                   /\ response.body[a].location # None

\* C10 witness: only_active, a member in two circles beside an Active member
\* without a parsed location
C10_Witness ==
    /\ Completed("get_current_locations")
    /\ op.only_active
    /\ circles = <<AllCircles[1], AllCircles[2]>>
    /\ Fetched(1) = <<MemberNoFix, MemberActive>>
    /\ Fetched(2) = <<MemberActive, MemberDisconnected>>
    /\ Len(response.body) = 2
    /\ response.body[1].circle_id = "c1"
    /\ response.body[2].circle_id = "c2"

(***************************************************************************)
(* routers/locations.py: get_driving_members                               *)
(***************************************************************************)
\* a slip: the `not in seen_ids` test left out
NeedsRefetch_NoSeenIds(entry) ==
    /\ ~IsNone(entry.location)
    /\ entry.location.is_driving

\* locations.py lines 100-102: the entry is driving and not yet appended
NeedsRefetch(entry) ==
    /\ ~IsNone(entry.location)
    /\ entry.location.is_driving
    /\ entry.member_id \notin seen_ids

\* locations.py lines 106-107: the first circle of the re-fetched list with
\* the entry's circle id, 0 when there is none
MatchingCircle(cs, circle_id) ==
    IF \E i \in 1..Len(cs) : cs[i].id = circle_id
    THEN CHOOSE i \in 1..Len(cs) :
             cs[i].id = circle_id /\ \A j \in 1..(i - 1) : cs[j].id # circle_id
    ELSE 0

RECURSIVE FindMember(_, _)
\* locations.py lines 109-113: the first member of the re-fetched list with
\* the id (None when there is none); member["id"] raises KeyError on a
\* member without id met before the match
FindMember(members, member_id) ==
    IF members = <<>> THEN Ok(None)
    ELSE IF Head(members).id = Absent THEN Raise("KeyError")
    ELSE IF Head(members).id = member_id THEN Ok(Head(members))
    ELSE FindMember(Tail(members), member_id)

\* locations.py line 111, given the member found
SummaryOfFound(found) ==
    IF ~found.ok THEN found
    ELSE IF found.v = None THEN Ok(None)
    ELSE create_member_summary(found.v)

(***************************************************************************)
(* SpecAggregation: one request to one of the seven aggregation handlers   *)
(***************************************************************************)
Call(name, only_active, threshold, search) ==
    [name |-> name, only_active |-> only_active, threshold |-> threshold,
     search |-> search]

\* the requests drawn: every handler, search with an empty and two non-empty
\* names, low-battery with a threshold below, inside and above [0,100]
AggregationCalls ==
    {Call(n, FALSE, 20, <<>>) :
        n \in {"get_all_members", "get_active_members", "get_driving_members",
               "get_statistics"}}
    \cup {Call("get_current_locations", b, 20, <<>>) : b \in BOOLEAN}
    \cup {Call("search_members", FALSE, 20, s) :
            s \in {<<>>, <<"j", "O">>, <<"D", "o", "e">>}}
    \cup {Call("get_low_battery_members", FALSE, th, <<>>) : th \in {-1, 20, 101}}

InitAggregation ==
    /\ rawLocation = None
    /\ locationOut = Pending
    /\ rawMember = None
    /\ statusOut = Pending
    /\ summaryOut = Pending
    /\ summaryAgain = Pending
    /\ op \in AggregationCalls
    /\ pc = "request"
    /\ circles = <<>>
    /\ idx = 0
    /\ result = <<>>
    /\ response = Pending
    /\ log = <<>>
    /\ DrivingIdle
    /\ SessionsIdle

\* a slip: the constraints not declared
ValidQuery_Unconstrained(call) == TRUE

\* members.py lines 119-124 (min_length=1), analytics.py lines 134-139
\* (ge=0, le=100): the constraints declared on the query parameters
ValidQuery(call) ==
    /\ call.name = "search_members" => Len(call.search) >= 1
    /\ call.name = "get_low_battery_members" =>
           call.threshold >= 0 /\ call.threshold <= 100

RequestValidationError == [status |-> 422, body |-> <<>>]

\* the declared constraints are checked before the handler's body runs
ValidateQuery ==
    /\ pc = "request"
    /\ IF ValidQuery(op)
       THEN pc' = "start" /\ UNCHANGED response
       ELSE pc' = "rejected" /\ response' = RequestValidationError
    /\ UNCHANGED <<helperVars, sessionVars, drivingVars, op, circles, idx, result, log>>

\* all_locations = await get_current_locations(only_active=True, api=api)
\* has returned
EndFirstTraversal ==
    /\ pc = "loop"
    /\ idx = Len(circles)
    /\ op.name = "get_driving_members"
    /\ all_locations' = result
    /\ locIndex' = 1
    /\ driving_members' = <<>>
    /\ seen_ids' = {}
    /\ pc' = "scan"
    /\ UNCHANGED <<helperVars, sessionVars, op, circles, idx, result, response, log>>

\* for loc in all_locations: the test of lines 100-102 is false
SkipLocation ==
    /\ pc = "scan"
    /\ locIndex <= Len(all_locations)
    /\ ~NeedsRefetch(all_locations[locIndex])
    /\ locIndex' = locIndex + 1
    /\ UNCHANGED <<helperVars, sessionVars, op, pc, circles, idx, result, response, log,
                   all_locations, driving_members, seen_ids>>

\* the log keeps the responses of the first traversal only; of a re-fetch
\* it keeps the call
NotKept == <<>>

\* what get_circles may answer to a re-fetch: the list of the first
\* traversal again, or no circle any more
RefetchedCircleLists == {log[1].resp, <<>>}

\* circles = await api.get_circles() of line 105, and the search of the
\* entry's circle in it
RefetchCircles ==
    /\ pc = "scan"
    /\ locIndex <= Len(all_locations)
    /\ NeedsRefetch(all_locations[locIndex])
    /\ \E cs \in RefetchedCircleLists :
        /\ circles' = cs
        /\ log' = Append(log, [call |-> "get_circles", arg |-> "", ok |-> TRUE,
                               resp |-> NotKept])
        /\ IF MatchingCircle(cs, all_locations[locIndex].circle_id) = 0
           THEN locIndex' = locIndex + 1 /\ UNCHANGED pc
           ELSE pc' = "refetch" /\ UNCHANGED locIndex
    /\ UNCHANGED <<helperVars, sessionVars, op, idx, result, response, all_locations,
                   driving_members, seen_ids>>

\* the re-fetch of one entry ends: the summary is appended and the id
\* remembered, nothing is appended, or an exception reaches except Exception
RefetchEnds(summary) ==
    IF ~summary.ok
    THEN /\ pc' = "failed"
         /\ response' = HTTPException500
         /\ UNCHANGED <<locIndex, driving_members, seen_ids>>
    ELSE /\ pc' = "scan"
         /\ locIndex' = locIndex + 1
         /\ UNCHANGED response
         /\ IF summary.v = None
            THEN UNCHANGED <<driving_members, seen_ids>>
            ELSE /\ driving_members' = Append(driving_members, summary.v)
                 /\ seen_ids' = seen_ids \cup {all_locations[locIndex].member_id}

\* members = await api.get_circle_members(circle["id"]) of line 108, and the
\* search of the member in it
RefetchMembers ==
    /\ pc = "refetch"
    /\ \E ms \in UpstreamMembers :
        /\ log' = Append(log, [call |-> "get_circle_members",
                               arg |-> all_locations[locIndex].circle_id,
                               ok |-> TRUE, resp |-> NotKept])
        /\ RefetchEnds(SummaryOfFound(
               FindMember(ms, all_locations[locIndex].member_id)))
    /\ UNCHANGED <<helperVars, sessionVars, op, circles, idx, result, all_locations>>

\* an upstream call of the re-fetch raises: except Exception -> 500
RefetchFails ==
    /\ \/ pc = "refetch"
       \/ /\ pc = "scan"
          /\ locIndex <= Len(all_locations)
          /\ NeedsRefetch(all_locations[locIndex])
    /\ log' = Append(log, [call |-> IF pc = "scan" THEN "get_circles"
                                    ELSE "get_circle_members",
                           arg |-> IF pc = "scan" THEN ""
                                   ELSE all_locations[locIndex].circle_id,
                           ok |-> FALSE, resp |-> <<>>])
    /\ pc' = "failed"
    /\ response' = HTTPException500
    /\ UNCHANGED <<helperVars, sessionVars, drivingVars, op, circles, idx, result>>

\* return driving_members
ReturnDriving ==
    /\ pc = "scan"
    /\ locIndex > Len(all_locations)
    /\ pc' = "done"
    /\ response' = Returned(driving_members)
    /\ UNCHANGED <<helperVars, sessionVars, drivingVars, op, circles, idx, result, log>>

NextAggregation ==
    \/ ValidateQuery
    \/ AwaitGetCircles
    \/ AwaitGetCircleMembers
    \/ UpstreamCallFails
    \/ Return
    \/ EndFirstTraversal
    \/ SkipLocation
    \/ RefetchCircles
    \/ RefetchMembers
    \/ RefetchFails
    \/ ReturnDriving

SpecAggregation == InitAggregation /\ [][NextAggregation]_vars

(***************************************************************************)
(* Claims about the aggregation handlers (SpecAggregation)                 *)
(***************************************************************************)
\* the member's full name contains the search term, both in lower case
SearchHit(m) == Contains(PyLower(op.search), PyLower(MemberFullName(m)))
HitsIn(i) == SelectSeq(Fetched(i), SearchHit)
HitsOf(i) ==
    [j \in 1..Len(HitsIn(i)) |->
        [circle |-> circles[i].name, circle_id |-> circles[i].id,
         member |-> create_member_summary(HitsIn(i)[j]).v]]

RECURSIVE HitsFrom(_)
HitsFrom(i) == IF i > Len(circles) THEN <<>> ELSE HitsOf(i) \o HitsFrom(i + 1)

\* C11: search_members returns exactly the (circle, member) pairs whose
\* member full_name contains the search term when both are compared in lower
\* case, each with its circle name and circle id, ordered by circle in
\* upstream order and then by member in upstream order; a member of two
\* circles appears once per circle.
C11_SearchReturnsMatches ==
    Completed("search_members") =>
        /\ response.status = 200
        /\ response.body = HitsFrom(1)
        /\ \A a \in 1..Len(response.body) :
               Contains(PyLower(op.search),
                        PyLower(response.body[a].member.full_name))

\* C11 witness: "jO" finds John Doe in both of his circles and neither Ann
\* Doe nor Eve Doe
C11_Witness ==
    /\ Completed("search_members")
    /\ op.search = <<"j", "O">>
    /\ circles = <<AllCircles[1], AllCircles[2]>>
    /\ Fetched(1) = <<MemberActive, MemberNoFix>>
    /\ Fetched(2) = <<MemberBroken, MemberActive>>
    /\ Len(response.body) = 2
    /\ response.body[1].circle_id = "c1"
    /\ response.body[2].circle_id = "c2"
    /\ response.body[1].member.id = Id1
    /\ response.body[2].member.id = Id1

\* C12: the list get_driving_members returns never holds two entries with
\* the same member id, whatever the upstream answers in the first traversal
\* and in the re-fetches; a driving member of two circles is listed once.
C12_NoDuplicateDrivers ==
    Completed("get_driving_members") =>
        /\ response.status = 200
        /\ \A a, b \in 1..Len(response.body) :
               a # b => response.body[a].id # response.body[b].id

\* C12 witness: John drives and is in both circles, Ann drives in the first;
\* three driving entries give two summaries
C12_Witness ==
    /\ Completed("get_driving_members")
    /\ Len(all_locations) = 3
    /\ all_locations[1].member_id = Id1
    /\ all_locations[2].member_id = Id2
    /\ all_locations[3].member_id = Id1
    /\ all_locations[3].location.is_driving
    /\ Len(response.body) = 2
    /\ response.body[1].id = Id1
    /\ response.body[2].id = Id2

\* C13: every summary get_driving_members returns has status Active and a
\* location with is_driving true, also when the record re-fetched for a
\* member differs from the record of the first traversal.
C13_DriversActiveAndDriving ==
    Completed("get_driving_members") =>
        \A a \in 1..Len(response.body) :
            /\ response.body[a].status = "Active"
            /\ ~IsNone(response.body[a].location)
            /\ response.body[a].location.is_driving

\* the battery the Location Parser gives an Active member: int(float(v))
\* clamped to [0,100]
ParserBattery(m) == BatteryValue(Get(MemberLocation(m).d, "battery", None))
HasParsedBattery(m) ==
    /\ parse_member_status(m) = Ok("Active")
    /\ MemberLocation(m).t = "dict"
    /\ ParserBattery(m).ok
    /\ ~IsNone(ParserBattery(m).v)

RECURSIVE SumParsedBatteries(_)
SumParsedBatteries(ms) ==
    IF ms = <<>> THEN 0
    ELSE ParserBattery(Head(ms)).v.i + SumParsedBatteries(Tail(ms))

\* the mean of the parsed batteries of the Active members, to one decimal
ClaimedAverage(ms) ==
    IF SelectSeq(ms, HasParsedBattery) = <<>> THEN None
    ELSE F(Fin(RoundTenths(SumParsedBatteries(SelectSeq(ms, HasParsedBattery)),
                           Len(SelectSeq(ms, HasParsedBattery))), 10))

\* C14: for each circle get_statistics reports average_battery as the mean,
\* rounded to one decimal, of the battery of every Active member whose
\* battery parses under the Location Parser rules (float then int, clamped
\* to [0,100]); it is absent exactly when no Active member has such a
\* battery.
C14_AverageOfParsedBatteries ==
    Completed("get_statistics") =>
        /\ Len(response.body) = Len(circles)
        /\ \A i \in 1..Len(response.body) :
               response.body[i].average_battery = ClaimedAverage(Fetched(i))

\* C15: for a circle with zero members get_statistics returns an entry with
\* total_members, active_members, disconnected_members and
\* location_off_members all 0 and average_battery absent, and the empty
\* circle does not make the operation fail.
C15_EmptyCircleCounted ==
    /\ Completed("get_statistics") =>
           /\ Len(response.body) = Len(circles)
           /\ \A i \in 1..Len(circles) :
                  Fetched(i) = <<>> =>
                      /\ response.body[i].circle_id = circles[i].id
                      /\ response.body[i].total_members = 0
                      /\ response.body[i].active_members = 0
                      /\ response.body[i].disconnected_members = 0
                      /\ response.body[i].location_off_members = 0
                      /\ response.body[i].average_battery = None
    /\ (op.name = "get_statistics" /\ pc = "failed") =>
           (~log[Len(log)].ok \/ log[Len(log)].resp # <<>>)

\* C15 witness: a circle without members before a circle with one
C15_Witness ==
    /\ Completed("get_statistics")
    /\ Len(circles) = 2
    /\ Fetched(1) = <<>>
    /\ Fetched(2) = <<Bat15>>
    /\ response.body[1].total_members = 0
    /\ response.body[1].average_battery = None
    /\ response.body[2].total_members = 1

\* an Active member whose parsed battery is at most the threshold
IsLowBattery(m) == HasParsedBattery(m) /\ ParserBattery(m).v.i <= op.threshold
LowIn(i) == SelectSeq(Fetched(i), IsLowBattery)
LowOf(i) ==
    [j \in 1..Len(LowIn(i)) |->
        [circle |-> circles[i].name, member |-> MemberFullName(LowIn(i)[j]),
         battery |-> ParserBattery(LowIn(i)[j]).v.i]]

RECURSIVE LowFrom(_)
\* the low-battery members in circle-then-member encounter order
LowFrom(i) == IF i > Len(circles) THEN <<>> ELSE LowOf(i) \o LowFrom(i + 1)

RECURSIVE AtLevel(_, _)
\* the entries with one battery level, in the order they have
AtLevel(entries, level) ==
    IF entries = <<>> THEN <<>>
    ELSE (IF Head(entries).battery = level THEN <<Head(entries)>> ELSE <<>>)
             \o AtLevel(Tail(entries), level)

RECURSIVE AscendingFrom(_, _)
\* the entries by ascending battery, ties in the order they have
AscendingFrom(entries, level) ==
    IF level > 100 THEN <<>>
    ELSE AtLevel(entries, level) \o AscendingFrom(entries, level + 1)

Reported(body) ==
    [a \in 1..Len(body) |->
        [circle |-> body[a].circle, member |-> body[a].member,
         battery |-> body[a].battery]]

\* C16: get_low_battery_members returns exactly the Active members, across
\* all circles, that have a parsed battery less than or equal to threshold,
\* sorted by battery ascending with ties kept in circle-then-member
\* encounter order.
C16_LowBatterySorted ==
    Completed("get_low_battery_members") =>
        Reported(response.body) = AscendingFrom(LowFrom(1), 0)

\* some upstream call of the running operation raised
SomeCallFailed == \E k \in 1..Len(log) : ~log[k].ok
\* some raw member the upstream returned has no id
SomeMemberWithoutId ==
    \E k \in 1..Len(log) :
        /\ log[k].ok
        /\ log[k].call = "get_circle_members"
        /\ \E j \in 1..Len(log[k].resp) : log[k].resp[j].id = Absent

\* C17: when every upstream call succeeds and every raw member has an id,
\* get_statistics, get_low_battery_members, get_current_locations,
\* get_all_members and search_members complete with a result: a raw field
\* that fails to parse or is out of range never makes the operation fail.
C17_UnparsableFieldsDegrade ==
    (/\ op.name \in {"get_statistics", "get_low_battery_members",
                     "get_current_locations", "get_all_members",
                     "search_members"}
     /\ pc = "failed")
        => (SomeCallFailed \/ SomeMemberWithoutId)

\* C18: in every aggregation operation, if an upstream call fails at any
\* point, also after some circles were fetched and processed, the operation
\* ends there in a single failure: no further upstream call is made and the
\* response is the failure, with nothing of what was gathered.
C18_UpstreamFailureAborts ==
    SomeCallFailed =>
        /\ pc = "failed"
        /\ response = HTTPException500
        /\ ~log[Len(log)].ok
        /\ \A k \in 1..(Len(log) - 1) : log[k].ok

\* C18 witness: get_driving_members had appended a summary when the re-fetch
\* of a later entry failed
C18_Witness ==
    /\ op.name = "get_driving_members"
    /\ pc = "failed"
    /\ driving_members # <<>>
    /\ ~log[Len(log)].ok
    /\ response.status = 500

\* a low-battery threshold outside [0,100], or a search with an empty name
OutsideDomain ==
    \/ op.name = "get_low_battery_members" /\ (op.threshold < 0 \/ op.threshold > 100)
    \/ op.name = "search_members" /\ op.search = <<>>

\* C19: a request to low-battery with a threshold outside [0,100], or to
\* search with an empty name, is rejected, and no upstream call
\* (get_circles, get_circle_members) is made for that request.
C19_RejectedBeforeUpstream ==
    OutsideDomain =>
        /\ log = <<>>
        /\ pc \in {"request", "rejected"}
        /\ pc = "rejected" => response = RequestValidationError

\* C19 witness: threshold 101 was rejected
C19_Witness ==
    /\ op.name = "get_low_battery_members"
    /\ op.threshold = 101
    /\ pc = "rejected"
    /\ response.status = 422
    /\ log = <<>>

\* the circle list of the operation's first get_circles call
FirstCircles == log[1].resp
\* the first n calls are get_circles, then get_circle_members for the
\* circles of that list, in its order
InOrderUpTo(n) ==
    /\ log[1].call = "get_circles"
    /\ n >= 2 => log[1].ok
    /\ \A k \in 2..n :
           /\ log[k].call = "get_circle_members"
           /\ log[k].arg = FirstCircles[k - 1].id

\* position of a circle in the first circle list, by id and by name (the
\* first circle with the name)
CircleIndex(id) == CHOOSE i \in 1..Len(FirstCircles) : FirstCircles[i].id = id
FirstNamed(name) ==
    CHOOSE i \in 1..Len(FirstCircles) :
        FirstCircles[i].name = name
        /\ \A j \in 1..(i - 1) : FirstCircles[j].name # name
NonDecreasing(ranks) == \A a, b \in 1..Len(ranks) : a < b => ranks[a] <= ranks[b]

\* the circles of the entries of a returned body, as positions in the list
\* (the entries of get_low_battery_members and get_driving_members name no
\* circle id: their encounter order is the order of the handler's list)
BodyCircles ==
    CASE op.name \in {"get_current_locations", "search_members", "get_statistics"} ->
             [a \in 1..Len(response.body) |-> CircleIndex(response.body[a].circle_id)]
      [] op.name \in {"get_all_members", "get_active_members"} ->
             [a \in 1..Len(response.body) |-> FirstNamed(response.body[a].k)]
      [] OTHER -> <<>>

\* C20 as stated: within one aggregation operation the upstream calls are
\* get_circles first, then get_circle_members for each circle in the order
\* of the circle list, the members of circle i being processed before the
\* call for circle i+1; the output order follows that circle order.
C20_OneOrderedTraversal ==
    log # <<>> =>
        /\ InOrderUpTo(Len(log))
        /\ pc = "loop" => idx = Len(log) - 1
        /\ pc = "done" =>
               /\ NonDecreasing(BodyCircles)
               /\ op.name = "get_low_battery_members" => response.body = result

\* number of calls of the traversal of circles: all of them, or for
\* get_driving_members past its first traversal the calls of that traversal
TraversalCalls == IF locIndex > 0 THEN 1 + Len(FirstCircles) ELSE Len(log)

\* the calls after the traversal are re-fetches: a get_circles, then at most
\* one get_circle_members
RefetchCallsPaired ==
    \A k \in (TraversalCalls + 1)..Len(log) :
        /\ op.name = "get_driving_members"
        /\ k = TraversalCalls + 1 => log[k].call = "get_circles"
        /\ log[k].call = "get_circle_members" =>
               (log[k - 1].call = "get_circles" /\ log[k - 1].ok)

\* the order of a returned body: by circle, or for get_low_battery_members
\* by battery and among equal batteries by encounter
BodyOrdered ==
    IF op.name = "get_low_battery_members"
    THEN response.body = AscendingFrom(result, 0)
    ELSE NonDecreasing(BodyCircles)

\* C20 amended: every operation starts with get_circles and then calls
\* get_circle_members for each circle of that list in its order, each
\* circle's members being processed before the next call; only
\* get_driving_members makes further calls, a get_circles and at most one
\* get_circle_members for each driving entry; the output follows the circle
\* order except for get_low_battery_members, which is ordered by battery
\* and by circle-then-member encounter among equal batteries.
C20_TraversalThenRefetches ==
    log # <<>> =>
        /\ InOrderUpTo(TraversalCalls)
        /\ RefetchCallsPaired
        /\ pc = "loop" => idx = Len(log) - 1
        /\ pc = "done" => BodyOrdered

\* C20 witness: get_driving_members made re-fetch calls after a traversal
\* of two circles and returned a summary
C20_Witness ==
    /\ Completed("get_driving_members")
    /\ Len(FirstCircles) = 2
    /\ Len(log) >= TraversalCalls + 2
    /\ log[TraversalCalls + 1].call = "get_circles"
    /\ log[TraversalCalls + 2].call = "get_circle_members"
    /\ Len(response.body) >= 1

C22_StatusTotal ==
    StatusReturned => (statusOut.ok /\ statusOut.v \in Statuses)

\* the name a raw field contributes: the empty string when the key is missing
NameOrEmpty(v) == IF v = Absent THEN <<>> ELSE v.s
Blank(s, from, to) == \A k \in from..to : s[k] = " "
NoOuterSpace(r) == r = <<>> \/ (r[1] # " " /\ r[Len(r)] # " ")
\* r is s without its leading and trailing spaces
IsTrimOf(r, s) ==
    /\ NoOuterSpace(r)
    /\ \E i \in 0..Len(s) : \E j \in 0..(Len(s) - i) :
           /\ Blank(s, 1, i)
           /\ Blank(s, Len(s) - j + 1, Len(s))
           /\ r = SubSeq(s, i + 1, Len(s) - j)

\* C24: full_name is first + " " + last without leading and trailing spaces,
\* a missing first or last name counting as the empty string: "John" with
\* lastName "" or missing gives exactly "John", and no full_name starts or
\* ends with a space.
C24_FullNameTrimmed ==
    (SummaryReturned /\ summaryOut.ok) =>
        /\ NoOuterSpace(summaryOut.v.full_name)
        /\ rawMember.lastName # None =>
               IsTrimOf(summaryOut.v.full_name,
                        NameOrEmpty(rawMember.firstName) \o <<" ">>
                            \o NameOrEmpty(rawMember.lastName))
        /\ (rawMember.firstName = John
                /\ rawMember.lastName \in {Absent, S(<<>>)}) =>
               summaryOut.v.full_name = <<"J", "o", "h", "n">>

\* C24 witness: firstName "John" with lastName "" summarised as "John"
C24_Witness ==
    /\ SummaryReturned
    /\ summaryOut.ok
    /\ rawMember.firstName = John
    /\ rawMember.lastName = S(<<>>)
    /\ summaryOut.v.full_name = <<"J", "o", "h", "n">>

\* the raw speed of the location drawn and what float() makes of it
RawSpeed == rawLocation.d.speed
SpeedUnread == RawSpeed = Absent \/ IsNone(RawSpeed) \/ ~PyFloat(RawSpeed).ok
IsNegative(x) == (x.k = "fin" /\ x.n < 0) \/ (x.k = "inf" /\ x.neg)
IsNonNegative(x) == (x.k = "fin" /\ x.n >= 0) \/ (x.k = "inf" /\ ~x.neg)

\* C23: in every Location parse_location returns, a negative raw speed is
\* absent (not 0, not negative), a non-negative numeric raw speed is kept
\* as its value, and an absent or unparsable raw speed is absent.
C23_NegativeSpeedAbsent ==
    (LocationReturned /\ locationOut.t = "Location") =>
        /\ SpeedUnread => IsNone(locationOut.speed)
        /\ (~SpeedUnread /\ IsNegative(PyFloat(RawSpeed).v)) =>
               IsNone(locationOut.speed)
        /\ (~SpeedUnread /\ IsNonNegative(PyFloat(RawSpeed).v)) =>
               locationOut.speed = F(PyFloat(RawSpeed).v)

\* C23 witness: a Location returned for a raw speed of -1, its speed absent
C23_Witness ==
    /\ LocationReturned
    /\ locationOut.t = "Location"
    /\ RawSpeed = I(-1)
    /\ IsNone(locationOut.speed)

(***************************************************************************)
(* Further claims about the handlers (SpecAggregation)                     *)
(***************************************************************************)
\* an Active member whose location timestamp int() accepts
HasParsedTimestamp(m) ==
    /\ parse_member_status(m) = Ok("Active")
    /\ MemberLocation(m).t = "dict"
    /\ ~IsNone(Get(MemberLocation(m).d, "timestamp", None))
    /\ PyInt(MemberLocation(m).d.timestamp).ok
ParsedTimestamp(m) == PyInt(MemberLocation(m).d.timestamp).v
Stamped(ms) == SelectSeq(ms, HasParsedTimestamp)

\* the last_update the rule gives a circle: the largest parsed timestamp of
\* its Active members, the current time when there is none
ClaimedLastUpdate(ms) ==
    IF Stamped(ms) = <<>> THEN S(<<"n", "o", "w">>)
    ELSE I(CHOOSE x \in {ParsedTimestamp(Stamped(ms)[k]) : k \in 1..Len(Stamped(ms))} :
               \A k \in 1..Len(Stamped(ms)) : ParsedTimestamp(Stamped(ms)[k]) <= x)

\* C25: for each circle get_statistics sets last_update to the maximum
\* parsed timestamp among the Active members with a timestamp int() accepts,
\* and to the current time only when no Active member has one; members that
\* are not Active do not count.
C25_LastUpdateIsLatestActive ==
    Completed("get_statistics") =>
        /\ Len(response.body) = Len(circles)
        /\ \A i \in 1..Len(response.body) :
               response.body[i].last_update = ClaimedLastUpdate(Fetched(i))

\* a raw member that is not disconnected, shares its location and has a
\* non-null raw location
RawActive(m) ==
    /\ MappingOrMissing(m.issues)
    /\ MappingOrMissing(m.features)
    /\ ~IsDisconnected(m)
    /\ ~SharingOff(m)
    /\ ~LocationMissing(m)
\* ... whose raw location parse_location rejects (or is empty)
ActiveUnlocated(m) == RawActive(m) /\ IsNone(parse_location(m.location))

\* the body has an entry for member m of the i-th circle
ListedAs(i, m, status, location) ==
    \E a \in 1..Len(response.body) :
        /\ response.body[a].circle_id = circles[i].id
        /\ response.body[a].member_id = m.id
        /\ response.body[a].status = status
        /\ response.body[a].location = location
ListsMember(m) ==
    \E a \in 1..Len(response.body) : response.body[a].member_id = m.id
KeepsMember(m) ==
    \E a \in 1..Len(response.body) : \E b \in 1..Len(response.body[a].v) :
        response.body[a].v[b].id = m.id

\* C26: a member that is not disconnected, shares its location and has a
\* non-null raw location that does not parse is normalized as "Active" with
\* no location; get_statistics counts it as active, get_active_members and
\* get_current_locations(only_active=true) leave it out.
C26_StatusIgnoresLocationParse ==
    \A i \in 1..Len(circles) :
        /\ (Completed("get_current_locations") /\ ~op.only_active) =>
               \A k \in 1..Len(Fetched(i)) :
                   ActiveUnlocated(Fetched(i)[k]) =>
                       ListedAs(i, Fetched(i)[k], "Active", None)
        /\ (Completed("get_current_locations") /\ op.only_active) =>
               \A k \in 1..Len(Fetched(i)) :
                   ActiveUnlocated(Fetched(i)[k]) => ~ListsMember(Fetched(i)[k])
        /\ Completed("get_active_members") =>
               \A k \in 1..Len(Fetched(i)) :
                   ActiveUnlocated(Fetched(i)[k]) => ~KeepsMember(Fetched(i)[k])
        /\ Completed("get_statistics") =>
               response.body[i].active_members
                   = Len(SelectSeq(Fetched(i), RawActive))

\* C26 witness: get_statistics counted two active members in a circle, one
\* of them with a location that does not parse
C26_Witness ==
    /\ Completed("get_statistics")
    /\ Len(circles) >= 1
    /\ Fetched(1) = <<Bat15, MemberNoFix>>
    /\ ActiveUnlocated(MemberNoFix)
    /\ response.body[1].active_members = 2

\* how many of the members ms parse_member_status gives this status
WithStatus(ms, status) ==
    Cardinality({k \in 1..Len(ms) : parse_member_status(ms[k]) = Ok(status)})
CountedSum(entry) ==
    entry.active_members + entry.disconnected_members + entry.location_off_members

\* C28: in every entry get_statistics returns, active + disconnected +
\* location_off <= total_members, the difference is the number of members
\* of the circle with status "No Location", and each member is counted
\* under exactly one status.
C28_CountsPartitionMembers ==
    Completed("get_statistics") =>
        /\ Len(response.body) = Len(circles)
        /\ \A i \in 1..Len(response.body) :
               /\ response.body[i].total_members = Len(Fetched(i))
               /\ CountedSum(response.body[i]) <= response.body[i].total_members
               /\ response.body[i].total_members - CountedSum(response.body[i])
                      = WithStatus(Fetched(i), "No Location")
               /\ response.body[i].active_members = WithStatus(Fetched(i), "Active")
               /\ response.body[i].disconnected_members
                      = WithStatus(Fetched(i), "Disconnected")
               /\ response.body[i].location_off_members
                      = WithStatus(Fetched(i), "Location Off")

\* C28 witness: a circle with a Location Off member and a No Location
\* member, after a circle with an Active and a Disconnected member
C28_Witness ==
    /\ Completed("get_statistics")
    /\ Len(circles) = 2
    /\ Fetched(1) = <<Bat15, MemberDisconnected>>
    /\ Fetched(2) = <<MemberSharingOff, MemberUnlocated>>
    /\ CountedSum(response.body[1]) = 2
    /\ response.body[2].total_members = 2
    /\ CountedSum(response.body[2]) = 1

\* the battery of the Location create_member_summary gives a raw member,
\* None when it has no Location or the Location has no battery
NormalizedBattery(m) ==
    IF ~create_member_summary(m).ok THEN None
    ELSE IF IsNone(create_member_summary(m).v.location) THEN None
    ELSE create_member_summary(m).v.location.battery
IsRawActive(m) == parse_member_status(m) = Ok("Active")
\* the average of a circle with one member whose battery is b
AverageOfOne(b) == IF IsNone(b) THEN None ELSE F(Fin(10 * b.i, 10))
\* the body has an entry for member m of the i-th circle with battery b
ReportedWith(i, m, b) ==
    \E a \in 1..Len(response.body) :
        /\ response.body[a].circle = circles[i].name
        /\ response.body[a].member = MemberFullName(m)
        /\ I(response.body[a].battery) = b
ReportedAtAll(i, m) ==
    \E a \in 1..Len(response.body) :
        /\ response.body[a].circle = circles[i].name
        /\ response.body[a].member = MemberFullName(m)
Low(b) == ~IsNone(b) /\ b.i <= op.threshold

\* C29: the analytics handlers and the normalized Member agree on battery:
\* the average get_statistics reports for a circle with one Active member
\* is the battery of that member's normalized Location (absent when it has
\* none), and get_low_battery_members reports an Active member exactly when
\* its normalized battery is at most the threshold, with that battery.
C29_AnalyticsBatteryIsNormalized ==
    \A i \in 1..Len(circles) :
        /\ (Completed("get_statistics") /\ Len(Fetched(i)) = 1
                /\ IsRawActive(Fetched(i)[1])) =>
               response.body[i].average_battery
                   = AverageOfOne(NormalizedBattery(Fetched(i)[1]))
        /\ Completed("get_low_battery_members") =>
               \A k \in 1..Len(Fetched(i)) :
                   IsRawActive(Fetched(i)[k]) =>
                       IF Low(NormalizedBattery(Fetched(i)[k]))
                       THEN ReportedWith(i, Fetched(i)[k],
                                         NormalizedBattery(Fetched(i)[k]))
                       ELSE ~ReportedAtAll(i, Fetched(i)[k])

(***************************************************************************)
(* dependencies.py and main.py: get_life360_api, lifespan                  *)
(***************************************************************************)
\* "Bearer "
Bearer == <<"B", "e", "a", "r", "e", "r", " ">>
\* s.startswith(prefix)
StartsWith(s, prefix) ==
    Len(s) >= Len(prefix) /\ SubSeq(s, 1, Len(prefix)) = prefix

\* f"Bearer {value}" unless the value has the prefix already
WithBearer(value) ==
    IF StartsWith(value.s, Bearer) THEN value.s ELSE Bearer \o value.s

HTTPException(status_code) == Raise([status_code |-> status_code])

\* a slip: the environment variable consulted before the header
ResolveToken_EnvFirst(authorization, env_token) ==
    IF Truthy(env_token) THEN Ok(WithBearer(env_token))
    ELSE IF Truthy(authorization) THEN Ok(WithBearer(authorization))
    ELSE HTTPException(401)

\* dependencies.py lines 33-52: the token, or the 401
ResolveToken(authorization, env_token) ==
    IF Truthy(authorization)
    THEN (IF StartsWith(authorization.s, Bearer) THEN Ok(authorization.s)
          ELSE Ok(Bearer \o authorization.s))
    ELSE IF ~Truthy(env_token) THEN HTTPException(401)
    ELSE IF StartsWith(env_token.s, Bearer) THEN Ok(env_token.s)
    ELSE Ok(Bearer \o env_token.s)

\* main.py lines 208-220: the token, or the 401
ResolveTokenMain(authorization, env_token) ==
    IF Truthy(authorization) /\ StartsWith(authorization.s, Bearer)
    THEN Ok(authorization.s)
    ELSE IF Truthy(authorization) THEN Ok(Bearer \o authorization.s)
    ELSE IF ~Truthy(env_token) THEN HTTPException(401)
    ELSE Ok(IF ~StartsWith(env_token.s, Bearer) THEN Bearer \o env_token.s
            ELSE env_token.s)

\* Life360(session=..., authorization=..., max_retries=3)
Life360(session, token) ==
    [t |-> "Life360", session |-> session, authorization |-> token,
     max_retries |-> 3]

\* dependencies.py lines 55-68, given the outcome of lines 33-52
WithDefaultSession(token, state) ==
    IF ~token.ok THEN token
    ELSE IF state.default_session = Absent THEN HTTPException(500)
    ELSE Ok(Life360(state.default_session, token.v))

\* dependencies.get_life360_api(authorization): the client, or the
\* HTTPException raised
get_life360_api(authorization, env_token, state) ==
    WithDefaultSession(ResolveToken(authorization, env_token), state)

(***************************************************************************)
(* SpecSessions: the process from startup to shutdown, with calls of both  *)
(* get_life360_api in between; main.py's is a plain def, which the         *)
(* framework runs on worker threads, so its calls interleave               *)
(***************************************************************************)
\* most get_life360_api calls in one run
MaxRequests == 2

HeaderVals ==
    {None, S(<<>>), S(<<"a">>), S(Bearer \o <<"a">>), S(Bearer \o <<"b">>)}
EnvVals == {None, S(<<>>), S(<<"a">>), S(Bearer \o <<"e">>)}

InitSessions ==
    /\ rawLocation = None
    /\ locationOut = Pending
    /\ rawMember = None
    /\ statusOut = Pending
    /\ summaryOut = Pending
    /\ summaryAgain = Pending
    /\ HandlerIdle
    /\ environ \in EnvVals
    /\ app_state = [default_session |-> Absent]
    /\ active_sessions = [token \in {} |-> 0]
    /\ created = <<>>
    /\ calls = <<>>
    /\ lifespanPc = "startup"

\* a call of get_life360_api: the module it belongs to, its argument, its
\* position, the token it resolved and what it ended with
Request(module, authorization, position, token, outcome) ==
    [module |-> module, authorization |-> authorization, pc |-> position,
     token |-> token, outcome |-> outcome]
NoToken == <<>>
TokenOf(r) == IF r.ok THEN r.v ELSE NoToken

\* a ClientSession object, known by its position in created
Session(n) == [t |-> "ClientSession", n |-> n]
\* ClientSession(): a new open session
NewSession == Session(Len(created) + 1)

\* main.py lines 127-129: lifespan up to the yield
Startup ==
    /\ lifespanPc = "startup"
    /\ created' = Append(created, "open")
    /\ app_state' = [app_state EXCEPT !.default_session = NewSession]
    /\ lifespanPc' = "serving"
    /\ UNCHANGED <<helperVars, handlerVars, environ, active_sessions, calls>>

\* the record of a finished dependencies.get_life360_api call
Depended(authorization, token, outcome) ==
    Request("dependencies", authorization,
            IF outcome.ok THEN "done" ELSE "failed", TokenOf(token), outcome)

\* dependencies.py lines 10-68: a coroutine without an await, one step; it
\* may run while app_state has no default session yet
CallDependency ==
    /\ lifespanPc \in {"startup", "serving"}
    /\ Len(calls) < MaxRequests
    /\ \E authorization \in HeaderVals :
           calls' = Append(calls,
                           Depended(authorization,
                                    ResolveToken(authorization, environ),
                                    get_life360_api(authorization, environ,
                                                    app_state)))
    /\ UNCHANGED <<helperVars, handlerVars, environ, app_state, active_sessions,
                   created, lifespanPc>>

\* the record of a main.get_life360_api call after lines 208-220
Resolved(authorization, token) ==
    Request("main", authorization, IF token.ok THEN "check" ELSE "failed",
            TokenOf(token), IF token.ok THEN Pending ELSE token)

\* main.py lines 208-220: a call starts on a worker thread and resolves its
\* token, or raises the 401
MainResolve ==
    /\ lifespanPc = "serving"
    /\ Len(calls) < MaxRequests
    /\ \E authorization \in HeaderVals :
           calls' = Append(calls,
                           Resolved(authorization,
                                    ResolveTokenMain(authorization, environ)))
    /\ UNCHANGED <<helperVars, handlerVars, environ, app_state, active_sessions,
                   created, lifespanPc>>

\* main.py line 223: `if token not in active_sessions`
MainCheck ==
    /\ \E i \in 1..Len(calls) :
           /\ calls[i].pc = "check"
           /\ calls' = [calls EXCEPT ![i].pc =
                            IF calls[i].token \in DOMAIN active_sessions
                            THEN "return" ELSE "create"]
    /\ UNCHANGED <<helperVars, handlerVars, environ, app_state, active_sessions,
                   created, lifespanPc>>

\* active_sessions[token] = session
Stored(token, session) ==
    [k \in DOMAIN active_sessions \cup {token} |->
        IF k = token THEN session ELSE active_sessions[k]]

\* main.py line 224: `active_sessions[token] = ClientSession()`
MainCreate ==
    /\ \E i \in 1..Len(calls) :
           /\ calls[i].pc = "create"
           /\ created' = Append(created, "open")
           /\ active_sessions' = Stored(calls[i].token, NewSession)
           /\ calls' = [calls EXCEPT ![i].pc = "return"]
    /\ UNCHANGED <<helperVars, handlerVars, environ, app_state, lifespanPc>>

\* main.py lines 226-230: the client on the session the table holds now
MainReturn ==
    /\ \E i \in 1..Len(calls) :
           /\ calls[i].pc = "return"
           /\ calls' = [calls EXCEPT
                            ![i].pc = "done",
                            ![i].outcome =
                                Ok(Life360(active_sessions[calls[i].token],
                                           calls[i].token))]
    /\ UNCHANGED <<helperVars, handlerVars, environ, app_state, active_sessions,
                   created, lifespanPc>>

\* the sessions lifespan closes: the default one and the table's values
ClosedAtShutdown ==
    {app_state.default_session}
        \cup {active_sessions[k] : k \in DOMAIN active_sessions}

\* main.py lines 130-135: lifespan after the yield, once no call is running
Shutdown ==
    /\ lifespanPc = "serving"
    /\ \A i \in 1..Len(calls) : calls[i].pc \in {"done", "failed"}
    /\ created' = [s \in 1..Len(created) |->
                      IF Session(s) \in ClosedAtShutdown THEN "closed"
                      ELSE created[s]]
    /\ active_sessions' = [token \in {} |-> 0]
    /\ lifespanPc' = "stopped"
    /\ UNCHANGED <<helperVars, handlerVars, environ, app_state, calls>>

NextSessions ==
    \/ Startup
    \/ CallDependency
    \/ MainResolve
    \/ MainCheck
    \/ MainCreate
    \/ MainReturn
    \/ Shutdown

SpecSessions == InitSessions /\ [][NextSessions]_vars

(***************************************************************************)
(* Claims about get_life360_api and lifespan (SpecSessions)                *)
(***************************************************************************)
HasHeader(c) == Truthy(c.authorization)
HasEnvironment == Truthy(environ)
\* token is the credential with "Bearer " in front, once
IsBearerOf(token, credential) ==
    /\ StartsWith(token, Bearer)
    /\ StartsWith(credential, Bearer) => token = credential
    /\ ~StartsWith(credential, Bearer) => token = Bearer \o credential

\* C27: get_life360_api takes a non-empty Authorization header even when
\* LIFE360_AUTHORIZATION is set, the environment variable without a header,
\* and fails with 401 with neither, also when no session is initialized
\* (the 500 needs a credential); the token handed to the client starts with
\* "Bearer " and a credential that has the prefix is passed unchanged.
C27_CredentialOrder ==
    \A i \in 1..Len(calls) :
        /\ HasHeader(calls[i]) =>
               IsBearerOf(calls[i].token, calls[i].authorization.s)
        /\ (~HasHeader(calls[i]) /\ HasEnvironment) =>
               IsBearerOf(calls[i].token, environ.s)
        /\ (~HasHeader(calls[i]) /\ ~HasEnvironment) =>
               (calls[i].pc = "failed" /\ calls[i].outcome = HTTPException(401))
        /\ calls[i].outcome = HTTPException(500) =>
               (calls[i].module = "dependencies"
                   /\ (HasHeader(calls[i]) \/ HasEnvironment))
        /\ calls[i].pc = "done" =>
               (calls[i].outcome.ok
                   /\ calls[i].outcome.v.authorization = calls[i].token
                   /\ StartsWith(calls[i].outcome.v.authorization, Bearer))

\* C27 witness: a header that has the prefix wins over the environment
\* variable and is handed on unchanged, and a call without any credential
\* got the 401 while no session was initialized
C27_Witness ==
    /\ Len(calls) = 2
    /\ environ = S(Bearer \o <<"e">>)
    /\ calls[1].module = "dependencies"
    /\ calls[1].authorization = S(Bearer \o <<"a">>)
    /\ calls[1].outcome = HTTPException(500)
    /\ calls[1].token = Bearer \o <<"a">>
    /\ calls[2].authorization = S(Bearer \o <<"a">>)
    /\ calls[2].pc = "done"
    /\ calls[2].outcome.v.authorization = Bearer \o <<"a">>

\* the sessions the table holds
Tabled == {active_sessions[k] : k \in DOMAIN active_sessions}
\* the tokens of the main.get_life360_api calls that are past line 224
Served == {calls[i].token : i \in {j \in 1..Len(calls) :
                                      /\ calls[j].module = "main"
                                      /\ calls[j].pc \in {"return", "done"}}}

\* C30: while the process serves, the table holds one session for each
\* distinct resolved token and every session ever created is the default
\* session or in the table; after shutdown every session ever created is
\* closed and the table is empty.
C30_SessionsTrackedAndClosed ==
    /\ lifespanPc = "serving" =>
           /\ DOMAIN active_sessions = Served
           /\ \A n \in 1..Len(created) :
                  Session(n) = app_state.default_session \/ Session(n) \in Tabled
           /\ Len(created) = 1 + Cardinality(Served)
    /\ lifespanPc = "stopped" =>
           /\ \A n \in 1..Len(created) : created[n] = "closed"
           /\ DOMAIN active_sessions = {}

====
